---------------------------- MODULE Spec2Model ----------------------------
(***************************************************************************)
(* Connection-lifecycle model of the smart-factory analytics server.       *)
(*                                                                         *)
(* The two managers (app/services/opcua_manager.py and                     *)
(* app/services/ethernet_ip_manager.py) run on one asyncio event loop: a   *)
(* task runs without interruption from one await to the next, so an action *)
(* below is the code one task executes between two awaits.  The blocking   *)
(* calls of the EtherNet/IP manager run in worker threads of its pool and  *)
(* are actions of their own.  Outcomes of the protocol clients (connect,   *)
(* subscription, probe, read, close) are chosen by the environment.        *)
(*                                                                         *)
(* One run drives one manager (family); the variables hold the state of    *)
(* that manager, under the names of OPCUAManager where the two differ.     *)
(*                                                                         *)
(* OPCUAExplorer (app/services/opcua_explorer.py) walks the address space  *)
(* of a connected server; the server reveals its tree as it is asked.      *)
(* OPCUAParser (app/utils/opcua_parsers.py) is pure: its functions are     *)
(* operators, applied to inputs the initial state draws.                   *)
(***************************************************************************)
EXTENDS Integers, Sequences, FiniteSets, TLC

(* ------------------------------ bounds -------------------------------- *)
\* largest finite retry budget tried for opcua.retry_attempts (0 = infinite)
MaxRetry == 2
\* supervisors the health monitor may launch in one run
MaxRelaunch == 1
\* client sessions that may be opened in one run
MaxHandles == 2
\* cap of the messages_received counter
MaxMsgs == 2
\* largest number of tags configured for a device
MaxTags == 1
\* calls of shutdown() in one run
MaxShutdowns == 2
\* largest value tried for the configured retry_delay
MaxDelay == 3
\* nodes a server reports to one explorer call
MaxNodes == 3
\* largest max_depth tried for recursive_browse
MaxDepth == 2
\* largest namespace index tried for the parser
MaxNs == 2

(* --------------------------- configuration ---------------------------- *)
\* a name no configured server has
UnknownName == "nx"

VARIABLES
    family,              \* the manager driven: "opcua" or "ethernet_ip"
    servers,             \* config[family]['servers' / 'devices']: names in order
    retry_attempts,      \* config[family]['retry_attempts']
    config_retry_delay,  \* config[family]['retry_delay']
    tag_configs,         \* EthernetIPManager.tag_configs: tags of each device
    read_tasks,          \* EthernetIPManager._read_tasks: name -> polling task
    is_running,          \* _is_running
    initialized,         \* _initialized
    clients,             \* OPCUAManager.clients / EthernetIPManager.connections:
                         \*   insertion-ordered name -> handle
    subscriptions,       \* OPCUAManager.subscriptions: name -> handle subscribed on
    connection_metrics,  \* connection_metrics: name -> metrics
    monitoring_task,     \* OPCUAManager._monitoring_task: position of the task
    mon_queue,           \* items of list(self.clients.items()) still to probe
    bg_task,             \* task of _connect_all_servers_background /
                         \*   _connect_all_devices_background
    sup,                 \* every retry-loop task ever created
    connection_tasks,    \* OPCUAManager._connection_tasks /
                         \*   EthernetIPManager._monitoring_tasks: name -> index in sup
    handles,             \* client objects that were opened: owner names
    closeReq,            \* handles whose disconnect() / close() was requested
    closeAgain,          \* handles asked to close by more than one shutdown()
    sd_calls,            \* calls of shutdown() so far
    sd_pc,               \* position of shutdown()
    sd_iter,             \* EthernetIPManager.shutdown: iterator over connections
    exhausted,           \* names whose budget ran out with no reconnect since
    api,                 \* outcome of the last API call
    ex_call,             \* the OPCUAExplorer call in progress: method,
                         \*   position, captured client, max_depth
    ex_stack,            \* frames of browse_recursive / the loop over children
    nodes_info,          \* browse_server_nodes: the list being built
    all_nodes,           \* recursive_browse: the list being built
    ex_io,               \* requests the explorer call has sent to the client
    node_info,           \* OPCUAParser: the dict passed in
    enhanced,            \* OPCUAParser: the value returned
    node_id_str,         \* OPCUAParser.parse_node_id: the str passed in
    node_id_parsed,      \* OPCUAParser.parse_node_id: the dict returned
    endpoint             \* the OPC UA server behind the clients: whether it
                         \*   answers, and the handles its outage broke

vars == <<family, ex_call, ex_stack, nodes_info, all_nodes, ex_io, node_info, enhanced, node_id_str, node_id_parsed, endpoint,
          config_retry_delay, tag_configs, read_tasks, closeAgain, sd_calls, sd_iter, servers, retry_attempts, is_running, initialized, clients, subscriptions,
          connection_metrics, monitoring_task, mon_queue, bg_task, sup,
          connection_tasks, handles, closeReq, sd_pc, exhausted, api>>

(* ------------------------------ helpers ------------------------------- *)
ServerNames == {servers[i] : i \in 1..Len(servers)}

\* OPCUAConnectionStatus
CONNECTED == "connected"
DISCONNECTED == "disconnected"
CONNECTING == "connecting"
ERROR == "error"

\* OPCUAConnectionMetrics as built by initialize()
NewMetrics ==
    [status |-> DISCONNECTED, active_subscriptions |-> 0,
     messages_received |-> 0, last_error |-> "none", latency_ms |-> "none"]

\* server_name in self.clients
ClientsHas(c, s) == \E i \in 1..Len(c) : c[i].name = s

\* position of server_name in the dict's iteration order
ClientsIndex(c, s) == CHOOSE i \in 1..Len(c) : c[i].name = s

\* self.clients[server_name] = client  (a dict keeps the key's first position)
ClientsPut(c, s, h) ==
    IF ClientsHas(c, s)
    THEN [c EXCEPT ![ClientsIndex(c, s)] = [name |-> s, h |-> h]]
    ELSE Append(c, [name |-> s, h |-> h])

\* max(a, b) of Python: a unless b is greater
Max(a, b) == IF b > a THEN b ELSE a

\* mutant: the configured delay is used as it is
retry_delay_unfloored == config_retry_delay

\* retry_delay = max(config.get('retry_delay', 2.0), 2.0)
retry_delay == Max(config_retry_delay, 2)

\* mutant: the budget 0 is not treated as "retry for ever"
infinite_retry_never == FALSE

\* infinite_retry = (retry_attempts == 0)
infinite_retry == (retry_attempts = 0)

\* mutant: the loop does not look at _is_running
LoopCondition_ignores_shutdown(a) == infinite_retry \/ a < retry_attempts

\* the condition of the while loop and of the sleep, for attempt counter a
LoopCondition(a) == is_running /\ (infinite_retry \/ a < retry_attempts)

\* the code after the while loop: lines 104-109
AfterLoop(m, s) ==
    IF ~infinite_retry
    THEN [m EXCEPT ![s].status = ERROR, ![s].last_error = "all_attempts_failed"]
    ELSE m

\* a task that has ended: its locals are gone
Finished(task, how) ==
    [task EXCEPT !.pc = how, !.attempt = 0, !.h = 0, !.delay = 0]

Live(t) == sup[t].pc \in {"start", "connecting", "subscribing", "sleeping"}
Relaunched == {t \in 1..Len(sup) : sup[t].origin = "monitor"}

(* ------------------------ explorer and parser ------------------------- *)
\* the client requests an explorer call has sent and their failures: nodes
\* whose children were asked for, those whose get_children() raised,
\* children the server reported, nodes whose name or class read raised, nodes
\* whose value was asked for, those whose read_value() raised, nodes whose
\* attributes were asked for (the writability probe), and whether the
\* namespace array was read
NoIo ==
    [listed |-> {}, list_failed |-> {}, reported |-> {}, attr_failed |-> {},
     value_read |-> {}, value_failed |-> {}, probed |-> {},
     namespaces |-> FALSE]

\* no explorer call was made yet
NoCall == [op |-> "none", pc |-> "none", h |-> 0, max_depth |-> 0]

\* no parser call was made
NoNodeInfo == [namespace |-> 0, browse_name |-> <<>>, display_name |-> <<>>]
NoResult == [call |-> "none", is_relevant |-> FALSE, category |-> "none"]

\* the server answers every request; broken counts the handles, oldest
\* first, whose session an outage ended
Healthy == [phase |-> "up", broken |-> 0]

\* parse_node_id was not called; keys are the keys of the dict returned
NoParse ==
    [call |-> "none", keys |-> {}, raw |-> <<>>, identifier |-> <<>>,
     namespace |-> 0, node_type |-> <<>>, formatted |-> <<>>, simple |-> <<>>]

(* ------------------------------- Init --------------------------------- *)
\* the state after OPCUAManager.__init__
Constructed ==
    /\ retry_attempts \in 0..MaxRetry
    /\ is_running = FALSE
    /\ initialized = FALSE
    /\ clients = <<>>
    /\ subscriptions = <<>>
    /\ connection_metrics = <<>>
    /\ monitoring_task = "none"
    /\ mon_queue = <<>>
    /\ bg_task = "none"
    /\ sup = <<>>
    /\ connection_tasks = <<>>
    /\ handles = <<>>
    /\ closeReq = {}
    /\ closeAgain = {}
    /\ sd_calls = 0
    /\ sd_pc = "idle"
    /\ sd_iter = <<>>
    /\ exhausted = {}
    /\ read_tasks = <<>>
    /\ api = "none"
    /\ ex_call = NoCall
    /\ ex_stack = <<>>
    /\ nodes_info = <<>>
    /\ all_nodes = <<>>
    /\ ex_io = NoIo
    /\ enhanced = NoResult
    /\ node_id_parsed = NoParse

\* one configured endpoint, either manager
Init ==
    /\ family \in {"opcua", "ethernet_ip"}
    /\ servers = <<"s1">>
    /\ config_retry_delay = 2
    /\ tag_configs = 0
    /\ node_info = NoNodeInfo
    /\ node_id_str = <<>>
    /\ endpoint = Healthy
    /\ Constructed

\* one configured endpoint with the budget of one attempt; a device has any
\* number of tags
InitApi ==
    /\ family \in {"opcua", "ethernet_ip"}
    /\ servers = <<"s1">>
    /\ config_retry_delay = 2
    /\ tag_configs \in IF family = "opcua" THEN {0} ELSE 0..MaxTags
    /\ node_info = NoNodeInfo
    /\ node_id_str = <<>>
    /\ endpoint = Healthy
    /\ Constructed
    /\ retry_attempts = 1

\* one configured endpoint, any configured retry_delay
InitDelay ==
    /\ family \in {"opcua", "ethernet_ip"}
    /\ servers = <<"s1">>
    /\ config_retry_delay \in 0..MaxDelay
    /\ tag_configs = 0
    /\ node_info = NoNodeInfo
    /\ node_id_str = <<>>
    /\ endpoint = Healthy
    /\ Constructed

\* a fleet of two configured endpoints with the budget of one attempt
InitFleet ==
    /\ family \in {"opcua", "ethernet_ip"}
    /\ servers = <<"s1", "s2">>
    /\ config_retry_delay = 2
    /\ tag_configs = 0
    /\ node_info = NoNodeInfo
    /\ node_id_str = <<>>
    /\ endpoint = Healthy
    /\ Constructed
    /\ retry_attempts = 1

(* ---------------------------- initialize ------------------------------ *)
\* mutant: initialize() awaits the connection of every server before it
\* returns
initialize_awaits_connections ==
    /\ family = "opcua"
    /\ ~initialized
    /\ sd_pc = "idle"
    /\ is_running' = TRUE
    /\ initialized' = TRUE
    /\ handles' = servers
    /\ clients' = [i \in 1..Len(servers) |-> [name |-> servers[i], h |-> i]]
    /\ connection_metrics' =
          [s \in ServerNames |-> [NewMetrics EXCEPT !.status = CONNECTED]]
    /\ bg_task' = "done"
    /\ monitoring_task' = "start"
    /\ UNCHANGED <<family, ex_call, ex_stack, nodes_info, all_nodes, ex_io, node_info, enhanced, node_id_str, node_id_parsed, endpoint,
                   config_retry_delay, tag_configs, closeAgain, sd_calls, read_tasks, sd_iter, servers, retry_attempts, subscriptions, mon_queue, sup,
                   connection_tasks, closeReq, sd_pc, exhausted, api>>

\* initialize(): no await inside, so the whole call is one step
initialize ==
    /\ family = "opcua"
    /\ ~initialized
    /\ sd_pc = "idle"
    /\ is_running' = TRUE
    /\ initialized' = TRUE
    /\ connection_metrics' = [s \in ServerNames |-> NewMetrics]
    /\ bg_task' = "start"
    /\ monitoring_task' = "start"
    /\ UNCHANGED <<family, ex_call, ex_stack, nodes_info, all_nodes, ex_io, node_info, enhanced, node_id_str, node_id_parsed, endpoint,
                   config_retry_delay, tag_configs, closeAgain, sd_calls, read_tasks, sd_iter, servers, retry_attempts, clients, subscriptions, mon_queue, sup,
                   connection_tasks, handles, closeReq, sd_pc, exhausted, api>>

\* the tasks created by the for loop of _connect_all_servers_background
NewSupervisors ==
    [i \in 1..Len(servers) |->
        [name |-> servers[i], attempt |-> 0, pc |-> "start", h |-> 0, job |-> "none", delay |-> 0,
         origin |-> "init"]]

\* _connect_all_servers_background(): one task per configured server
connect_all_servers_background ==
    /\ family = "opcua"
    /\ bg_task = "start"
    /\ bg_task' = "done"
    /\ sup' = sup \o NewSupervisors
    /\ connection_tasks' =
          [s \in ServerNames |->
              Len(sup) + (CHOOSE i \in 1..Len(servers) : servers[i] = s)]
    /\ UNCHANGED <<family, ex_call, ex_stack, nodes_info, all_nodes, ex_io, node_info, enhanced, node_id_str, node_id_parsed, endpoint,
                   config_retry_delay, tag_configs, closeAgain, sd_calls, read_tasks, sd_iter, servers, retry_attempts, is_running, initialized, clients,
                   subscriptions, connection_metrics, monitoring_task,
                   mon_queue, handles, closeReq, sd_pc, exhausted, api>>

(* --------------------- _connect_to_server_with_retry ------------------ *)
\* leaving the while loop with attempt counter a: lines 104-109
ExitLoop(t, a) ==
    /\ sup' = [sup EXCEPT ![t] = Finished(sup[t], "returned_false")]
    /\ connection_metrics' = AfterLoop(connection_metrics, sup[t].name)
    /\ exhausted' = IF ~infinite_retry /\ a >= retry_attempts
                    THEN exhausted \cup {sup[t].name} ELSE exhausted

\* mutant: the delay is slept after every failed attempt, the last included
AfterFailure_sleeps_after_last(t) ==
    LET a == IF ~infinite_retry THEN sup[t].attempt + 1 ELSE sup[t].attempt IN
    IF is_running
    THEN /\ sup' = [sup EXCEPT ![t].attempt = a, ![t].pc = "sleeping",
                               ![t].delay = retry_delay]
         /\ UNCHANGED <<connection_metrics, exhausted>>
    ELSE ExitLoop(t, a)

\* a failed attempt: lines 91-102, then the loop test again
AfterFailure(t) ==
    LET a == IF ~infinite_retry THEN sup[t].attempt + 1 ELSE sup[t].attempt IN
    IF LoopCondition(a)
    THEN /\ sup' = [sup EXCEPT ![t].attempt = a, ![t].pc = "sleeping",
                               ![t].delay = retry_delay]
         /\ UNCHANGED <<connection_metrics, exhausted>>
    ELSE ExitLoop(t, a)

\* the loop test, then Client(...) and the await of client.connect()
EnterLoop(t) ==
    IF LoopCondition(sup[t].attempt)
    THEN /\ sup' = [sup EXCEPT ![t].pc = "connecting", ![t].delay = 0]
         /\ UNCHANGED <<connection_metrics, exhausted>>
    ELSE ExitLoop(t, sup[t].attempt)

\* first run of the task
supervisor_start(t) ==
    /\ family = "opcua"
    /\ sup[t].pc = "start"
    /\ EnterLoop(t)
    /\ UNCHANGED <<family, ex_call, ex_stack, nodes_info, all_nodes, ex_io, node_info, enhanced, node_id_str, node_id_parsed, endpoint,
                   config_retry_delay, tag_configs, closeAgain, sd_calls, read_tasks, sd_iter, servers, retry_attempts, is_running, initialized, clients,
                   subscriptions, monitoring_task, mon_queue, bg_task,
                   connection_tasks, handles, closeReq, sd_pc, api>>

\* asyncio.sleep(retry_delay) is over
supervisor_wake(t) ==
    /\ family = "opcua"
    /\ sup[t].pc = "sleeping"
    /\ EnterLoop(t)
    /\ UNCHANGED <<family, ex_call, ex_stack, nodes_info, all_nodes, ex_io, node_info, enhanced, node_id_str, node_id_parsed, endpoint,
                   config_retry_delay, tag_configs, closeAgain, sd_calls, read_tasks, sd_iter, servers, retry_attempts, is_running, initialized, clients,
                   subscriptions, monitoring_task, mon_queue, bg_task,
                   connection_tasks, handles, closeReq, sd_pc, api>>

\* _simple_connect: client.connect() returned; lines 122-125
simple_connect_ok(t) ==
    /\ family = "opcua"
    /\ sup[t].pc = "connecting"
    /\ Len(handles) < MaxHandles
    /\ handles' = Append(handles, sup[t].name)
    /\ clients' = ClientsPut(clients, sup[t].name, Len(handles) + 1)
    /\ connection_metrics' =
          [connection_metrics EXCEPT ![sup[t].name].status = CONNECTED]
    /\ sup' = [sup EXCEPT ![t].pc = "subscribing", ![t].h = Len(handles) + 1]
    /\ UNCHANGED <<family, ex_call, ex_stack, nodes_info, all_nodes, ex_io, node_info, enhanced, node_id_str, node_id_parsed, endpoint,
                   config_retry_delay, tag_configs, closeAgain, sd_calls, read_tasks, sd_iter, servers, retry_attempts, is_running, initialized, subscriptions,
                   monitoring_task, mon_queue, bg_task, connection_tasks,
                   closeReq, sd_pc, exhausted, api>>

\* _simple_connect: client.connect() raised or timed out; lines 131-136
simple_connect_fail(t) ==
    /\ family = "opcua"
    /\ sup[t].pc = "connecting"
    /\ AfterFailure(t)
    /\ UNCHANGED <<family, ex_call, ex_stack, nodes_info, all_nodes, ex_io, node_info, enhanced, node_id_str, node_id_parsed, endpoint,
                   config_retry_delay, tag_configs, closeAgain, sd_calls, read_tasks, sd_iter, servers, retry_attempts, is_running, initialized, clients,
                   subscriptions, monitoring_task, mon_queue, bg_task,
                   connection_tasks, handles, closeReq, sd_pc, api>>

\* _simple_connect: create_subscription returned; lines 126-129, then line 90
create_subscription_ok(t) ==
    /\ family = "opcua"
    /\ sup[t].pc = "subscribing"
    /\ subscriptions' =
          (sup[t].name :> sup[t].h) @@ subscriptions
    /\ connection_metrics' =
          [connection_metrics EXCEPT ![sup[t].name].active_subscriptions = 1]
    /\ sup' = [sup EXCEPT ![t] = Finished(sup[t], "returned_true")]
    /\ UNCHANGED <<family, ex_call, ex_stack, nodes_info, all_nodes, ex_io, node_info, enhanced, node_id_str, node_id_parsed, endpoint,
                   config_retry_delay, tag_configs, closeAgain, sd_calls, read_tasks, sd_iter, servers, retry_attempts, is_running, initialized, clients,
                   monitoring_task, mon_queue, bg_task, connection_tasks,
                   handles, closeReq, sd_pc, exhausted, api>>

\* _simple_connect: create_subscription raised; lines 134-136
create_subscription_fail(t) ==
    /\ family = "opcua"
    /\ sup[t].pc = "subscribing"
    /\ AfterFailure(t)
    /\ UNCHANGED <<family, ex_call, ex_stack, nodes_info, all_nodes, ex_io, node_info, enhanced, node_id_str, node_id_parsed, endpoint,
                   config_retry_delay, tag_configs, closeAgain, sd_calls, read_tasks, sd_iter, servers, retry_attempts, is_running, initialized, clients,
                   subscriptions, monitoring_task, mon_queue, bg_task,
                   connection_tasks, handles, closeReq, sd_pc, api>>

(* ------------------------- _monitor_connections ----------------------- *)
\* the end of one pass of the for loop: next item, or the sleep of line 168
NextProbe ==
    IF Tail(mon_queue) = <<>> \/ ~is_running
    THEN monitoring_task' = "sleeping" /\ mon_queue' = <<>>
    ELSE monitoring_task' = "probing" /\ mon_queue' = Tail(mon_queue)

\* top of the while loop: snapshot of the clients, first probe sent
monitor_cycle ==
    /\ family = "opcua"
    /\ monitoring_task \in {"start", "sleeping"}
    /\ IF ~is_running
       THEN monitoring_task' = "done" /\ mon_queue' = <<>>
       ELSE IF clients = <<>>
            THEN monitoring_task' = "sleeping" /\ mon_queue' = <<>>
            ELSE monitoring_task' = "probing" /\ mon_queue' = clients
    /\ UNCHANGED <<family, ex_call, ex_stack, nodes_info, all_nodes, ex_io, node_info, enhanced, node_id_str, node_id_parsed, endpoint,
                   config_retry_delay, tag_configs, closeAgain, sd_calls, read_tasks, sd_iter, servers, retry_attempts, is_running, initialized, clients,
                   subscriptions, connection_metrics, bg_task, sup,
                   connection_tasks, handles, closeReq, sd_pc, exhausted, api>>

\* read_browse_name() returned: lines 154-157
monitor_probe_ok ==
    /\ family = "opcua"
    /\ monitoring_task = "probing"
    /\ connection_metrics' =
          [connection_metrics EXCEPT ![mon_queue[1].name].latency_ms = "measured",
                                     ![mon_queue[1].name].status = CONNECTED]
    /\ NextProbe
    /\ UNCHANGED <<family, ex_call, ex_stack, nodes_info, all_nodes, ex_io, node_info, enhanced, node_id_str, node_id_parsed, endpoint,
                   config_retry_delay, tag_configs, closeAgain, sd_calls, read_tasks, sd_iter, servers, retry_attempts, is_running, initialized, clients,
                   subscriptions, bg_task, sup, connection_tasks, handles,
                   closeReq, sd_pc, exhausted, api>>

\* mutant: the probe error escapes to the outer handler of the while loop,
\* which drops the rest of the cycle
monitor_probe_fail_aborts_cycle ==
    /\ family = "opcua"
    /\ monitoring_task = "probing"
    /\ Cardinality(Relaunched) < MaxRelaunch
    /\ connection_metrics' =
          [connection_metrics EXCEPT ![mon_queue[1].name].status = ERROR,
                                     ![mon_queue[1].name].last_error = "probe_error"]
    /\ sup' = Append(sup, [name |-> mon_queue[1].name, attempt |-> 0,
                           pc |-> "start", h |-> 0,
                           job |-> "none", delay |-> 0, origin |-> "monitor"])
    /\ monitoring_task' = "sleeping" /\ mon_queue' = <<>>
    /\ UNCHANGED <<family, ex_call, ex_stack, nodes_info, all_nodes, ex_io, node_info, enhanced, node_id_str, node_id_parsed, endpoint,
                   config_retry_delay, tag_configs, closeAgain, sd_calls, read_tasks, sd_iter, servers, retry_attempts, is_running, initialized, clients,
                   subscriptions, bg_task, connection_tasks, handles,
                   closeReq, sd_pc, exhausted, api>>

\* mutant: a failed probe marks the endpoint and starts no supervisor
monitor_probe_fail_marks_only ==
    /\ family = "opcua"
    /\ monitoring_task = "probing"
    /\ Cardinality(Relaunched) < MaxRelaunch
    /\ connection_metrics' =
          [connection_metrics EXCEPT ![mon_queue[1].name].status = ERROR,
                                     ![mon_queue[1].name].last_error = "probe_error"]
    /\ sup' = sup
    /\ NextProbe
    /\ UNCHANGED <<family, ex_call, ex_stack, nodes_info, all_nodes, ex_io, node_info, enhanced, node_id_str, node_id_parsed, endpoint,
                   config_retry_delay, tag_configs, closeAgain, sd_calls, read_tasks, sd_iter, servers, retry_attempts, is_running, initialized, clients,
                   subscriptions, bg_task, connection_tasks, handles,
                   closeReq, sd_pc, exhausted, api>>

\* read_browse_name() raised: lines 159-166
monitor_probe_fail ==
    /\ family = "opcua"
    /\ monitoring_task = "probing"
    /\ Cardinality(Relaunched) < MaxRelaunch
    /\ connection_metrics' =
          [connection_metrics EXCEPT ![mon_queue[1].name].status = ERROR,
                                     ![mon_queue[1].name].last_error = "probe_error"]
    /\ sup' = Append(sup, [name |-> mon_queue[1].name, attempt |-> 0,
                           pc |-> "start", h |-> 0,
                           job |-> "none", delay |-> 0, origin |-> "monitor"])
    /\ NextProbe
    /\ UNCHANGED <<family, ex_call, ex_stack, nodes_info, all_nodes, ex_io, node_info, enhanced, node_id_str, node_id_parsed, endpoint,
                   config_retry_delay, tag_configs, closeAgain, sd_calls, read_tasks, sd_iter, servers, retry_attempts, is_running, initialized, clients,
                   subscriptions, bg_task, connection_tasks, handles,
                   closeReq, sd_pc, exhausted, api>>

(* ------------------------------ shutdown ------------------------------ *)
\* task.cancel(): CancelledError is raised in the task at its current await
Cancel(task) == IF task.pc \in {"start", "connecting", "subscribing", "sleeping"}
                THEN Finished(task, "cancelled") ELSE task

\* shutdown(), lines 230-238: up to the await of the cancelled monitor
shutdown_to_monitor ==
    /\ family = "opcua"
    /\ initialized
    /\ is_running' = FALSE
    /\ monitoring_task' = IF monitoring_task \in {"start", "probing", "sleeping"}
                          THEN "cancelled" ELSE monitoring_task
    /\ mon_queue' = <<>>
    /\ sd_pc' = "await_monitor"
    /\ sd_calls' = sd_calls + 1
    /\ UNCHANGED <<family, ex_call, ex_stack, nodes_info, all_nodes, ex_io, node_info, enhanced, node_id_str, node_id_parsed, endpoint,
                   config_retry_delay, tag_configs, closeAgain, read_tasks, sd_iter, servers, retry_attempts, initialized, clients, subscriptions,
                   connection_metrics, bg_task, sup, connection_tasks,
                   handles, closeReq, exhausted, api>>

\* mutant: shutdown() replaces the metrics entry of a disconnected server by
\* a fresh one
shutdown_disconnect_resets_metrics ==
    /\ family = "opcua"
    /\ sd_pc = "await_monitor"
    /\ sup' = [t \in 1..Len(sup) |->
                 IF \E s \in DOMAIN connection_tasks : connection_tasks[s] = t
                 THEN Cancel(sup[t]) ELSE sup[t]]
    /\ closeReq' = closeReq \cup {clients[i].h : i \in 1..Len(clients)}
    /\ closeAgain' =
          closeAgain \cup ({clients[i].h : i \in 1..Len(clients)} \cap closeReq)
    /\ connection_metrics' =
          [s \in DOMAIN connection_metrics |->
              IF ClientsHas(clients, s)
              THEN [NewMetrics EXCEPT !.status = DISCONNECTED]
              ELSE connection_metrics[s]]
    /\ sd_pc' = IF clients = <<>> THEN "done" ELSE "await_gather"
    /\ UNCHANGED <<family, ex_call, ex_stack, nodes_info, all_nodes, ex_io, node_info, enhanced, node_id_str, node_id_parsed, endpoint,
                   config_retry_delay, tag_configs, sd_calls, read_tasks, sd_iter, servers, retry_attempts, is_running, initialized, clients,
                   subscriptions, monitoring_task, mon_queue, bg_task,
                   connection_tasks, handles, exhausted, api>>

\* the first call of shutdown()
shutdown_begin == sd_pc = "idle" /\ shutdown_to_monitor

\* a call of shutdown() after an earlier call has returned
shutdown_again ==
    sd_pc = "done" /\ sd_calls < MaxShutdowns /\ shutdown_to_monitor

\* shutdown(), lines 240-252: cancel the recorded tasks, ask every client
\* of self.clients to disconnect, await the gather when there is one
shutdown_disconnect ==
    /\ family = "opcua"
    /\ sd_pc = "await_monitor"
    /\ sup' = [t \in 1..Len(sup) |->
                 IF \E s \in DOMAIN connection_tasks : connection_tasks[s] = t
                 THEN Cancel(sup[t]) ELSE sup[t]]
    /\ closeReq' = closeReq \cup {clients[i].h : i \in 1..Len(clients)}
    /\ closeAgain' =
          closeAgain \cup ({clients[i].h : i \in 1..Len(clients)} \cap closeReq)
    /\ connection_metrics' =
          [s \in DOMAIN connection_metrics |->
              IF ClientsHas(clients, s)
              THEN [connection_metrics[s] EXCEPT !.status = DISCONNECTED]
              ELSE connection_metrics[s]]
    /\ sd_pc' = IF clients = <<>> THEN "done" ELSE "await_gather"
    /\ UNCHANGED <<family, ex_call, ex_stack, nodes_info, all_nodes, ex_io, node_info, enhanced, node_id_str, node_id_parsed, endpoint,
                   config_retry_delay, tag_configs, sd_calls, read_tasks, sd_iter, servers, retry_attempts, is_running, initialized, clients,
                   subscriptions, monitoring_task, mon_queue, bg_task,
                   connection_tasks, handles, exhausted, api>>

\* shutdown(), line 254: the gather of the disconnects is over
shutdown_return ==
    /\ family = "opcua"
    /\ sd_pc = "await_gather"
    /\ sd_pc' = "done"
    /\ UNCHANGED <<family, ex_call, ex_stack, nodes_info, all_nodes, ex_io, node_info, enhanced, node_id_str, node_id_parsed, endpoint,
                   config_retry_delay, tag_configs, closeAgain, sd_calls, read_tasks, sd_iter, servers, retry_attempts, is_running, initialized, clients,
                   subscriptions, connection_metrics, monitoring_task,
                   mon_queue, bg_task, sup, connection_tasks, handles,
                   closeReq, exhausted, api>>

(* ------------------------------ API calls ----------------------------- *)
\* mutant: a failed read also marks the endpoint as failed
read_node_value_marks_error(s, ok) ==
    /\ family = "opcua"
    /\ IF ~initialized
       THEN api' = "NotInitialized" /\ UNCHANGED connection_metrics
       ELSE IF ~ClientsHas(clients, s)
       THEN api' = "NotConnected" /\ UNCHANGED connection_metrics
       ELSE IF ok
       THEN /\ connection_metrics[s].messages_received < MaxMsgs
            /\ connection_metrics' =
                  [connection_metrics EXCEPT ![s].messages_received = @ + 1]
            /\ api' = "value"
       ELSE /\ connection_metrics' =
                  [connection_metrics EXCEPT ![s].last_error = "read_error",
                                             ![s].status = ERROR]
            /\ api' = "ReadError"
    /\ UNCHANGED <<family, ex_call, ex_stack, nodes_info, all_nodes, ex_io, node_info, enhanced, node_id_str, node_id_parsed, endpoint,
                   config_retry_delay, tag_configs, closeAgain, sd_calls, read_tasks, sd_iter, servers, retry_attempts, is_running, initialized, clients,
                   subscriptions, monitoring_task, mon_queue, bg_task, sup,
                   connection_tasks, handles, closeReq, sd_pc, exhausted>>

\* read_node_value(server_name, node_id); ok is the outcome of read_value()
read_node_value(s, ok) ==
    /\ family = "opcua"
    /\ IF ~initialized
       THEN api' = "NotInitialized" /\ UNCHANGED connection_metrics
       ELSE IF ~ClientsHas(clients, s)
       THEN api' = "NotConnected" /\ UNCHANGED connection_metrics
       ELSE IF ok
       THEN /\ connection_metrics[s].messages_received < MaxMsgs
            /\ connection_metrics' =
                  [connection_metrics EXCEPT ![s].messages_received = @ + 1]
            /\ api' = "value"
       ELSE /\ connection_metrics' =
                  [connection_metrics EXCEPT ![s].last_error = "read_error"]
            /\ api' = "ReadError"
    /\ UNCHANGED <<family, ex_call, ex_stack, nodes_info, all_nodes, ex_io, node_info, enhanced, node_id_str, node_id_parsed, endpoint,
                   config_retry_delay, tag_configs, closeAgain, sd_calls, read_tasks, sd_iter, servers, retry_attempts, is_running, initialized, clients,
                   subscriptions, monitoring_task, mon_queue, bg_task, sup,
                   connection_tasks, handles, closeReq, sd_pc, exhausted>>

\* POST /opcua/reconnect/{server_name}: OPCUAManager has no _reconnect_server,
\* so the call raises AttributeError and the handler answers 500; an unknown
\* name raises the 404 inside the same try and is answered 500 as well
reconnect_server(s) ==
    /\ family = "opcua"
    /\ exhausted' = exhausted \ {s}
    /\ UNCHANGED <<family, ex_call, ex_stack, nodes_info, all_nodes, ex_io, node_info, enhanced, node_id_str, node_id_parsed, endpoint,
                   config_retry_delay, tag_configs, closeAgain, sd_calls, read_tasks, sd_iter, servers, retry_attempts, is_running, initialized, clients,
                   subscriptions, connection_metrics, monitoring_task,
                   mon_queue, bg_task, sup, connection_tasks, handles,
                   closeReq, sd_pc, api>>

(* ------------------------ EthernetIPManager --------------------------- *)
\* EthernetIPConnectionStatus.READY
READY == "ready"

\* EthernetIPConnectionMetrics as built by initialize()
NewEipMetrics ==
    [status |-> READY, tags_monitored |-> 0, messages_received |-> 0,
     last_error |-> "none", latency_ms |-> "none", last_success |-> "none"]

\* a blocking call is running in a worker thread of _thread_pool
RunningJobs(tasks, readers) ==
    \/ \E t \in 1..Len(tasks) : tasks[t].job = "running"
    \/ \E s \in DOMAIN readers : readers[s].job = "running"

\* the event loop runs tasks, i.e. its thread is not inside
\* ThreadPoolExecutor.shutdown(wait=True)
LoopFree == sd_pc # "pool_wait"

\* initialize(): no await inside, so the whole call is one step
eip_initialize ==
    /\ family = "ethernet_ip"
    /\ ~initialized
    /\ sd_pc = "idle"
    /\ is_running' = TRUE
    /\ initialized' = TRUE
    /\ connection_metrics' = [s \in ServerNames |-> NewEipMetrics]
    /\ bg_task' = "start"
    /\ UNCHANGED <<family, ex_call, ex_stack, nodes_info, all_nodes, ex_io, node_info, enhanced, node_id_str, node_id_parsed, endpoint,
                   config_retry_delay, tag_configs, closeAgain, sd_calls, read_tasks, sd_iter, servers, retry_attempts, clients,
                   subscriptions, monitoring_task, mon_queue, sup,
                   connection_tasks, handles, closeReq, sd_pc, exhausted, api>>

\* _connect_all_devices_background(): one task per configured device
eip_connect_all_devices_background ==
    /\ family = "ethernet_ip"
    /\ bg_task = "start"
    /\ LoopFree
    /\ bg_task' = "done"
    /\ sup' = sup \o [i \in 1..Len(servers) |->
                        [name |-> servers[i], attempt |-> 0, pc |-> "start",
                         h |-> 0, job |-> "none", delay |-> 0, origin |-> "init"]]
    /\ connection_tasks' =
          [s \in ServerNames |->
              Len(sup) + (CHOOSE i \in 1..Len(servers) : servers[i] = s)]
    /\ UNCHANGED <<family, ex_call, ex_stack, nodes_info, all_nodes, ex_io, node_info, enhanced, node_id_str, node_id_parsed, endpoint,
                   config_retry_delay, tag_configs, closeAgain, sd_calls, read_tasks, sd_iter, servers, retry_attempts, is_running,
                   initialized, clients, subscriptions, connection_metrics,
                   monitoring_task, mon_queue, handles, closeReq, sd_pc,
                   exhausted, api>>

\* _connect_device_with_retry: the loop test (line 108), then
\* _connect_single_device hands _blocking_connect to the pool and awaits it;
\* when the test fails, lines 140-145
eip_EnterLoop(t) ==
    IF LoopCondition(sup[t].attempt)
    THEN /\ sup' = [sup EXCEPT ![t].pc = "connecting", ![t].job = "running",
                               ![t].delay = 0]
         /\ UNCHANGED <<connection_metrics, exhausted>>
    ELSE ExitLoop(t, sup[t].attempt)

\* first run of the task
eip_supervisor_start(t) ==
    /\ family = "ethernet_ip"
    /\ sup[t].pc = "start"
    /\ LoopFree
    /\ eip_EnterLoop(t)
    /\ UNCHANGED <<family, ex_call, ex_stack, nodes_info, all_nodes, ex_io, node_info, enhanced, node_id_str, node_id_parsed, endpoint,
                   config_retry_delay, tag_configs, closeAgain, sd_calls, read_tasks, sd_iter, servers, retry_attempts, is_running,
                   initialized, clients, subscriptions, monitoring_task,
                   mon_queue, bg_task, connection_tasks, handles, closeReq,
                   sd_pc, api>>

\* asyncio.sleep(retry_delay) is over
eip_supervisor_wake(t) ==
    /\ family = "ethernet_ip"
    /\ sup[t].pc = "sleeping"
    /\ LoopFree
    /\ eip_EnterLoop(t)
    /\ UNCHANGED <<family, ex_call, ex_stack, nodes_info, all_nodes, ex_io, node_info, enhanced, node_id_str, node_id_parsed, endpoint,
                   config_retry_delay, tag_configs, closeAgain, sd_calls, read_tasks, sd_iter, servers, retry_attempts, is_running,
                   initialized, clients, subscriptions, monitoring_task,
                   mon_queue, bg_task, connection_tasks, handles, closeReq,
                   sd_pc, api>>

\* the result of a job whose awaiting task was cancelled is never read
JobResult(task, r) ==
    [task EXCEPT !.job = IF task.pc = "connecting" THEN r ELSE "none"]

\* _blocking_connect in a worker thread: connection.open() returned True and
\* the thread stores the connection (lines 194-197)
eip_blocking_connect_ok(t) ==
    /\ family = "ethernet_ip"
    /\ sup[t].job = "running"
    /\ Len(handles) < MaxHandles
    /\ handles' = Append(handles, sup[t].name)
    /\ clients' = ClientsPut(clients, sup[t].name, Len(handles) + 1)
    /\ sup' = [sup EXCEPT ![t] = JobResult(sup[t], "true")]
    /\ UNCHANGED <<family, ex_call, ex_stack, nodes_info, all_nodes, ex_io, node_info, enhanced, node_id_str, node_id_parsed, endpoint,
                   config_retry_delay, tag_configs, closeAgain, sd_calls, read_tasks, sd_iter, servers, retry_attempts, is_running,
                   initialized, subscriptions, connection_metrics,
                   monitoring_task, mon_queue, bg_task, connection_tasks,
                   closeReq, sd_pc, exhausted, api>>

\* _blocking_connect in a worker thread: open() returned False or raised
\* (lines 198-204)
eip_blocking_connect_fail(t) ==
    /\ family = "ethernet_ip"
    /\ sup[t].job = "running"
    /\ sup' = [sup EXCEPT ![t] = JobResult(sup[t], "false")]
    /\ UNCHANGED <<family, ex_call, ex_stack, nodes_info, all_nodes, ex_io, node_info, enhanced, node_id_str, node_id_parsed, endpoint,
                   config_retry_delay, tag_configs, closeAgain, sd_calls, read_tasks, sd_iter, servers, retry_attempts, is_running,
                   initialized, clients, subscriptions, connection_metrics,
                   monitoring_task, mon_queue, bg_task, connection_tasks,
                   handles, closeReq, sd_pc, exhausted, api>>

\* _start_tag_monitoring: a polling task when the device has tags, lines 208-222
start_tag_monitoring(s) ==
    IF tag_configs > 0
    THEN (s :> [pc |-> "start", job |-> "none", n |-> 0]) @@ read_tasks
    ELSE read_tasks

\* _connect_single_device resumes with the job's result (lines 159-165);
\* then lines 117-122 with no tag configured, or lines 123-145
eip_connect_single_device_done(t) ==
    /\ family = "ethernet_ip"
    /\ sup[t].pc = "connecting"
    /\ sup[t].job \in {"true", "false"}
    /\ LoopFree
    /\ LET s == sup[t].name
           a == IF ~infinite_retry THEN sup[t].attempt + 1 ELSE sup[t].attempt
           failed == [connection_metrics EXCEPT ![s].status = ERROR]
       IN IF sup[t].job = "true"
          THEN /\ connection_metrics' =
                     [connection_metrics EXCEPT
                         ![s].status = CONNECTED,
                         ![s].last_success = "set",
                         ![s].tags_monitored = IF tag_configs > 0
                                               THEN tag_configs ELSE @]
               /\ read_tasks' = start_tag_monitoring(s)
               /\ sup' = [sup EXCEPT ![t] =
                            [Finished(sup[t], "returned_true") EXCEPT !.job = "none"]]
               /\ UNCHANGED exhausted
          ELSE IF LoopCondition(a)
          THEN /\ connection_metrics' = failed
               /\ UNCHANGED read_tasks
               /\ sup' = [sup EXCEPT ![t].attempt = a, ![t].pc = "sleeping",
                                     ![t].job = "none",
                                     ![t].delay = retry_delay]
               /\ UNCHANGED exhausted
          ELSE /\ connection_metrics' = AfterLoop(failed, s)
               /\ UNCHANGED read_tasks
               /\ sup' = [sup EXCEPT ![t] =
                            [Finished(sup[t], "returned_false") EXCEPT !.job = "none"]]
               /\ exhausted' = IF ~infinite_retry /\ a >= retry_attempts
                               THEN exhausted \cup {s} ELSE exhausted
    /\ UNCHANGED <<family, ex_call, ex_stack, nodes_info, all_nodes, ex_io, node_info, enhanced, node_id_str, node_id_parsed, endpoint,
                   config_retry_delay, tag_configs, closeAgain, sd_calls, sd_iter, servers, retry_attempts, is_running,
                   initialized, clients, subscriptions, monitoring_task,
                   mon_queue, bg_task, connection_tasks, handles, closeReq,
                   sd_pc, api>>

\* self._thread_pool.shutdown(wait=True), line 405: returns when no job runs
PoolShutdown(tasks, readers) ==
    IF RunningJobs(tasks, readers) THEN "pool_wait" ELSE "done"

\* task.cancel() of a polling task: a job already handed to the pool goes on
CancelReader(r) ==
    IF r.pc \in {"start", "reading", "sleeping"}
    THEN [r EXCEPT !.pc = "cancelled"] ELSE r

\* shutdown(), lines 386-399: cancel the recorded tasks, start iterating
\* self.connections and hand the first close() to the pool
eip_shutdown_begin ==
    /\ family = "ethernet_ip"
    /\ initialized
    /\ sd_pc = "idle"
    /\ is_running' = FALSE
    /\ sup' = [t \in 1..Len(sup) |->
                 IF \E s \in DOMAIN connection_tasks : connection_tasks[s] = t
                 THEN Cancel(sup[t]) ELSE sup[t]]
    /\ read_tasks' = [s \in DOMAIN read_tasks |-> CancelReader(read_tasks[s])]
    /\ IF clients = <<>>
       THEN sd_pc' = PoolShutdown(sup', read_tasks') /\ sd_iter' = <<>>
       ELSE sd_pc' = "closing" /\ sd_iter' = <<1, Len(clients), clients[1].h>>
    /\ sd_calls' = sd_calls + 1
    /\ UNCHANGED <<family, ex_call, ex_stack, nodes_info, all_nodes, ex_io, node_info, enhanced, node_id_str, node_id_parsed, endpoint,
                   config_retry_delay, tag_configs, closeAgain, servers, retry_attempts, initialized, clients,
                   subscriptions, connection_metrics, monitoring_task,
                   mon_queue, bg_task, connection_tasks, handles, closeReq,
                   exhausted, api>>

\* a call of shutdown() after an earlier call has returned: the tasks are
\* cancelled again, run_in_executor raises for every connection because the
\* pool is shut down (caught at line 401), and the second
\* _thread_pool.shutdown returns at once
eip_shutdown_again ==
    /\ family = "ethernet_ip"
    /\ sd_pc = "done"
    /\ sd_calls < MaxShutdowns
    /\ is_running' = FALSE
    /\ sup' = [t \in 1..Len(sup) |->
                 IF \E s \in DOMAIN connection_tasks : connection_tasks[s] = t
                 THEN Cancel(sup[t]) ELSE sup[t]]
    /\ read_tasks' = [s \in DOMAIN read_tasks |-> CancelReader(read_tasks[s])]
    /\ sd_calls' = sd_calls + 1
    /\ UNCHANGED <<family, ex_call, ex_stack, nodes_info, all_nodes, ex_io, node_info, enhanced, node_id_str, node_id_parsed, endpoint,
                   config_retry_delay, tag_configs, closeAgain, sd_iter,
                   servers, retry_attempts, initialized, clients, subscriptions,
                   connection_metrics, monitoring_task, mon_queue, bg_task,
                   connection_tasks, handles, closeReq, sd_pc, exhausted, api>>

\* connection.close() in a worker thread; ok = it did not raise
eip_blocking_close(ok) ==
    /\ family = "ethernet_ip"
    /\ sd_pc = "closing"
    /\ closeReq' = closeReq \cup {sd_iter[3]}
    /\ sd_pc' = IF ok THEN "closed" ELSE "close_raised"
    /\ UNCHANGED <<family, ex_call, ex_stack, nodes_info, all_nodes, ex_io, node_info, enhanced, node_id_str, node_id_parsed, endpoint,
                   config_retry_delay, tag_configs, closeAgain, sd_calls, read_tasks, sd_iter, servers, retry_attempts, is_running,
                   initialized, clients, subscriptions, connection_metrics,
                   monitoring_task, mon_queue, bg_task, sup, connection_tasks,
                   handles, exhausted, api>>

\* shutdown() resumes after a close (lines 400-402) and asks the dict
\* iterator for the next item: the iterator raises RuntimeError when the
\* dict has changed size, and the error leaves shutdown(); after the last
\* item, line 405
eip_shutdown_next ==
    /\ family = "ethernet_ip"
    /\ sd_pc \in {"closed", "close_raised"}
    /\ connection_metrics' =
          IF sd_pc = "closed"
          THEN [connection_metrics EXCEPT
                   ![clients[sd_iter[1]].name].status = DISCONNECTED]
          ELSE connection_metrics
    /\ IF Len(clients) # sd_iter[2]
       THEN sd_pc' = "raised" /\ sd_iter' = <<>>
       ELSE IF sd_iter[1] < sd_iter[2]
       THEN /\ sd_pc' = "closing"
            /\ sd_iter' = <<sd_iter[1] + 1, sd_iter[2], clients[sd_iter[1] + 1].h>>
       ELSE sd_pc' = PoolShutdown(sup, read_tasks) /\ sd_iter' = <<>>
    /\ UNCHANGED <<family, ex_call, ex_stack, nodes_info, all_nodes, ex_io, node_info, enhanced, node_id_str, node_id_parsed, endpoint,
                   config_retry_delay, tag_configs, closeAgain, sd_calls, read_tasks, servers, retry_attempts, is_running, initialized,
                   clients, subscriptions, monitoring_task, mon_queue, bg_task,
                   sup, connection_tasks, handles, closeReq, exhausted, api>>

\* the last running job has ended: shutdown(wait=True) returns, lines 405-407
eip_pool_drained ==
    /\ family = "ethernet_ip"
    /\ sd_pc = "pool_wait"
    /\ ~RunningJobs(sup, read_tasks)
    /\ sd_pc' = "done"
    /\ UNCHANGED <<family, ex_call, ex_stack, nodes_info, all_nodes, ex_io, node_info, enhanced, node_id_str, node_id_parsed, endpoint,
                   config_retry_delay, tag_configs, closeAgain, sd_calls, read_tasks, sd_iter, servers, retry_attempts, is_running,
                   initialized, clients, subscriptions, connection_metrics,
                   monitoring_task, mon_queue, bg_task, sup, connection_tasks,
                   handles, closeReq, exhausted, api>>

(* ---------------------- EthernetIPManager: reads ---------------------- *)
\* messages_received after adding n, None when the cap would be passed
Counted(m, n) == IF m + n <= MaxMsgs THEN m + n ELSE -1

\* _monitor_tags_loop, line 228 and lines 231-232: the loop test, then
\* read_multiple_tags hands _blocking_read_multiple_tags to the pool; the
\* two tests of lines 307-311 hold when the loop test does
eip_monitor_tags_loop(s) ==
    /\ family = "ethernet_ip"
    /\ s \in DOMAIN read_tasks
    /\ read_tasks[s].pc \in {"start", "sleeping"}
    /\ LoopFree
    /\ read_tasks' =
          [read_tasks EXCEPT ![s] =
              IF is_running /\ ClientsHas(clients, s)
              THEN [pc |-> "reading", job |-> "running", n |-> 0]
              ELSE [pc |-> "done", job |-> "none", n |-> 0]]
    /\ UNCHANGED <<family, ex_call, ex_stack, nodes_info, all_nodes, ex_io, node_info, enhanced, node_id_str, node_id_parsed, endpoint,
                   config_retry_delay, tag_configs, closeAgain, sd_calls, sd_iter, servers,
                   retry_attempts, is_running, initialized, clients,
                   subscriptions, connection_metrics, monitoring_task,
                   mon_queue, bg_task, sup, connection_tasks, handles,
                   closeReq, sd_pc, exhausted, api>>

\* _blocking_read_multiple_tags in a worker thread: n results, none when
\* connection.read raised (lines 335-358); the result of a job whose
\* awaiting task was cancelled is never read
eip_blocking_read_multiple_tags(s, n) ==
    /\ family = "ethernet_ip"
    /\ s \in DOMAIN read_tasks
    /\ read_tasks[s].job = "running"
    /\ read_tasks' =
          [read_tasks EXCEPT ![s] =
              IF read_tasks[s].pc = "reading"
              THEN [@ EXCEPT !.job = "returned", !.n = n]
              ELSE [@ EXCEPT !.job = "none"]]
    /\ UNCHANGED <<family, ex_call, ex_stack, nodes_info, all_nodes, ex_io, node_info, enhanced, node_id_str, node_id_parsed, endpoint,
                   config_retry_delay, tag_configs, closeAgain, sd_calls, sd_iter, servers,
                   retry_attempts, is_running, initialized, clients,
                   subscriptions, connection_metrics, monitoring_task,
                   mon_queue, bg_task, sup, connection_tasks, handles,
                   closeReq, sd_pc, exhausted, api>>

\* read_multiple_tags resumes with the results (lines 322-326), then the
\* loop counts the same values again (lines 234-241) and sleeps (line 245)
eip_read_multiple_tags_done(s) ==
    /\ family = "ethernet_ip"
    /\ s \in DOMAIN read_tasks
    /\ read_tasks[s].pc = "reading"
    /\ read_tasks[s].job = "returned"
    /\ LoopFree
    /\ LET n == read_tasks[s].n
           in_read == Counted(connection_metrics[s].messages_received, n)
           in_loop == Counted(in_read, n)
       IN /\ in_read >= 0 /\ in_loop >= 0
          /\ connection_metrics' =
                IF n > 0
                THEN [connection_metrics EXCEPT ![s].messages_received = in_loop,
                                                ![s].last_success = "set"]
                ELSE connection_metrics
    /\ read_tasks' =
          [read_tasks EXCEPT ![s] = [pc |-> "sleeping", job |-> "none", n |-> 0]]
    /\ UNCHANGED <<family, ex_call, ex_stack, nodes_info, all_nodes, ex_io, node_info, enhanced, node_id_str, node_id_parsed, endpoint,
                   config_retry_delay, tag_configs, closeAgain, sd_calls, sd_iter, servers,
                   retry_attempts, is_running, initialized, clients,
                   subscriptions, monitoring_task, mon_queue, bg_task, sup,
                   connection_tasks, handles, closeReq, sd_pc, exhausted, api>>

\* read_tag(device_name, tag_path), lines 252-278; ok is whether
\* _blocking_read_tag returned a value; once the pool is shut down
\* run_in_executor raises
eip_read_tag(s, ok) ==
    /\ family = "ethernet_ip"
    /\ LoopFree
    /\ IF ~initialized
       THEN api' = "NotInitialized" /\ UNCHANGED connection_metrics
       ELSE IF ~ClientsHas(clients, s)
       THEN api' = "NotConnected" /\ UNCHANGED connection_metrics
       ELSE IF sd_pc = "done"
       THEN /\ connection_metrics' =
                  [connection_metrics EXCEPT ![s].last_error = "read_error"]
            /\ api' = "ReadError"
       ELSE IF ok
       THEN /\ Counted(connection_metrics[s].messages_received, 1) >= 0
            /\ connection_metrics' =
                  [connection_metrics EXCEPT ![s].messages_received = @ + 1,
                                             ![s].last_success = "set"]
            /\ api' = "value"
       ELSE api' = "None" /\ UNCHANGED connection_metrics
    /\ UNCHANGED <<family, ex_call, ex_stack, nodes_info, all_nodes, ex_io, node_info, enhanced, node_id_str, node_id_parsed, endpoint,
                   config_retry_delay, tag_configs, closeAgain, sd_calls, read_tasks, sd_iter,
                   servers, retry_attempts, is_running, initialized, clients,
                   subscriptions, monitoring_task, mon_queue, bg_task, sup,
                   connection_tasks, handles, closeReq, sd_pc, exhausted>>

(* ---------------------------- OPCUAExplorer --------------------------- *)
\* the variables of the two managers, of the explorer and of the parser
managers == <<family, servers, retry_attempts, config_retry_delay, tag_configs,
              read_tasks, is_running, initialized, clients, subscriptions,
              connection_metrics, monitoring_task, mon_queue, bg_task, sup,
              connection_tasks, handles, closeReq, closeAgain, sd_calls,
              sd_pc, sd_iter, exhausted, endpoint>>
explorer == <<ex_call, ex_stack, nodes_info, all_nodes, ex_io>>
parser == <<node_info, enhanced, node_id_str, node_id_parsed>>

\* NODE_CLASS_MAP.get(node_class_num, f"Unknown({node_class_num})")
NODE_CLASS_MAP(node_class_num) ==
    CASE node_class_num = 1 -> "Object"
      [] node_class_num = 2 -> "Variable"
      [] node_class_num = 4 -> "Method"
      [] node_class_num = 8 -> "ObjectType"
      [] node_class_num = 16 -> "VariableType"
      [] node_class_num = 32 -> "ReferenceType"
      [] node_class_num = 64 -> "DataType"
      [] OTHER -> "Unknown"

\* the class numbers a server reports here: Object, Variable, Method,
\* ObjectType and a number NODE_CLASS_MAP does not hold
NodeClasses == {1, 2, 4, 8, 3}

\* a node of the address space is named by its path from the node the call
\* starts at: <<2, 1>> is the first child of the second child.  The server
\* reveals the tree as it is asked: get_children() answers any number of
\* children while MaxNodes nodes have not been reported in the call
ChildrenLeft == MaxNodes - Cardinality(ex_io.reported)
ChildPaths(path, k) == {Append(path, i) : i \in 1..k}

\* the frame of a browse_recursive call awaiting get_children(), line 151
Pending(path, depth) ==
    [path |-> path, depth |-> depth, listed |-> FALSE, total |-> 0, left |-> 0]

\* the frame of a loop over `children`, `left` of them still to come
Frame(path, depth, k) ==
    [path |-> path, depth |-> depth, listed |-> TRUE, total |-> k, left |-> k]

Top(st) == st[Len(st)]
Pop(st) == SubSeq(st, 1, Len(st) - 1)

\* the child the loop of the top frame is at, and the frames once the loop
\* has taken it
CurrentChild(st) == Append(Top(st).path, Top(st).total - Top(st).left + 1)
Taken(st) == [st EXCEPT ![Len(st)].left = @ - 1]

\* a for loop with no child left ends and its call returns to the loop of
\* the caller, which may end in turn
RECURSIVE Unwind(_)
Unwind(st) ==
    IF st # <<>> /\ Top(st).listed /\ Top(st).left = 0
    THEN Unwind(Pop(st))
    ELSE st

\* the server answered get_children() of the top frame with k children
Listed(st, k) ==
    [st EXCEPT ![Len(st)] = Frame(Top(st).path, Top(st).depth, k)]

\* client = self.manager.clients[server_name]
ClientOf(s) == clients[ClientsIndex(clients, s)].h

\* the call returns its list when no frame is left (lines 89, 198)
Return(st) ==
    /\ ex_call' = [ex_call EXCEPT !.pc = IF st = <<>> THEN "returned" ELSE @]
    /\ api' = IF st = <<>> THEN "nodes" ELSE api

(* ------------------------ browse_server_nodes ------------------------- *)
\* browse_server_nodes, lines 18-40: the membership test, then get_node and
\* the request for the children
browse_server_nodes(s) ==
    /\ family = "opcua"
    /\ ex_call.op = "none"
    /\ IF ~ClientsHas(clients, s)
       THEN /\ api' = "NotConnected"
            /\ UNCHANGED <<ex_call, ex_io, nodes_info>>
       ELSE /\ ex_call' = [op |-> "browse_server_nodes", pc |-> "listing",
                           h |-> ClientOf(s), max_depth |-> 0]
            /\ ex_io' = [ex_io EXCEPT !.listed = @ \cup {<<>>}]
            /\ nodes_info' = <<>>
            /\ UNCHANGED api
    /\ UNCHANGED <<managers, parser, ex_stack, all_nodes>>

\* get_children() answers, line 40: k children, or it raises and the error
\* leaves the call (lines 85-87)
browse_get_children(ok, k) ==
    /\ family = "opcua"
    /\ ex_call.op = "browse_server_nodes"
    /\ ex_call.pc = "listing"
    /\ IF ok
       THEN /\ k <= ChildrenLeft
            /\ ex_io' = [ex_io EXCEPT !.reported = @ \cup ChildPaths(<<>>, k)]
            /\ ex_stack' = Unwind(<<Frame(<<>>, 0, k)>>)
            /\ ex_call' = [ex_call EXCEPT !.pc = IF k = 0 THEN "returned"
                                                 ELSE "children"]
            /\ api' = IF k = 0 THEN "nodes" ELSE api
       ELSE /\ k = 0
            /\ ex_call' = [ex_call EXCEPT !.pc = "raised"]
            /\ api' = "BrowseError"
            /\ ex_io' = [ex_io EXCEPT !.list_failed = @ \cup {<<>>}]
            /\ UNCHANGED ex_stack
    /\ UNCHANGED <<managers, parser, nodes_info, all_nodes>>

\* what the reads of one child may do: the name or class read raises
\* (attr_fail); all reads succeed (ok); for a Variable, read_value raises
\* (value_fail), read_data_type raises (dtype_fail), read_attributes raises
\* (probe_fail)
Outcomes(node_class_str) ==
    IF node_class_str = "Variable"
    THEN {"attr_fail", "ok", "value_fail", "dtype_fail", "probe_fail"}
    ELSE {"attr_fail", "ok"}

\* mutant: read_value is not inside a try of its own
ReachesAppend_value_read_unguarded(outcome) ==
    outcome \notin {"attr_fail", "value_fail"}

\* the child's record reaches nodes_info.append (line 79) unless an error
\* reached the handler of lines 81-83
ReachesAppend(outcome) == outcome # "attr_fail"

\* the OPCUANodeInfo of lines 53-77.  The handler of line 75 serves
\* read_value and read_data_type alike and replaces the value; the probe
\* (lines 69-73) is inside the same try, behind the two reads
NodeInfo(path, node_class_str, outcome) ==
    [path |-> path,
     node_class |-> node_class_str,
     value |-> IF node_class_str # "Variable" THEN "None"
               ELSE IF outcome \in {"value_fail", "dtype_fail"} THEN "error"
               ELSE "value",
     data_type |-> IF node_class_str # "Variable" THEN "None"
                   ELSE IF outcome \in {"value_fail", "dtype_fail"}
                   THEN "Unknown"
                   ELSE "type",
     writable |-> IF node_class_str = "Variable" /\ outcome = "ok"
                  THEN "bool" ELSE "None"]

\* the requests of lines 45-70 for one child
ChildIo(io, path, node_class_str, outcome) ==
    [io EXCEPT
        !.attr_failed = IF outcome = "attr_fail" THEN @ \cup {path} ELSE @,
        !.value_read = IF node_class_str = "Variable" /\ outcome # "attr_fail"
                       THEN @ \cup {path} ELSE @,
        !.value_failed = IF outcome = "value_fail" THEN @ \cup {path} ELSE @,
        !.probed = IF node_class_str = "Variable"
                      /\ outcome \in {"ok", "probe_fail"}
                   THEN @ \cup {path} ELSE @]

\* one turn of the loop of lines 42-83; the reads of one child are one step,
\* no other task shares the locals of the call.  After the last child,
\* line 89
browse_child(node_class_num, outcome) ==
    /\ family = "opcua"
    /\ ex_call.op = "browse_server_nodes"
    /\ ex_call.pc = "children"
    /\ LET node_class_str == NODE_CLASS_MAP(node_class_num)
           child == CurrentChild(ex_stack)
           st == Unwind(Taken(ex_stack))
       IN /\ outcome \in Outcomes(node_class_str)
          /\ outcome = "attr_fail" => node_class_num = 1
          /\ nodes_info' =
                IF ReachesAppend(outcome)
                THEN Append(nodes_info, NodeInfo(child, node_class_str, outcome))
                ELSE nodes_info
          /\ ex_io' = ChildIo(ex_io, child, node_class_str, outcome)
          /\ ex_stack' = st
          /\ Return(st)
    /\ UNCHANGED <<managers, parser, all_nodes>>

(* -------------------------- recursive_browse -------------------------- *)
\* browse_recursive up to its first await, lines 146-151: nothing when the
\* depth is over max_depth, else the children are asked for
browse_recursive(st, current_node, current_depth, max_depth) ==
    IF current_depth > max_depth
    THEN st
    ELSE Append(st, Pending(current_node, current_depth))

\* mutant: an Object is entered whatever its depth
Descend_any_depth(st, child, node_class_str, current_depth, max_depth) ==
    IF node_class_str = "Object"
    THEN Append(st, Pending(child, current_depth + 1))
    ELSE st

\* mutant: a node of any class is entered
Descend_any_class(st, child, node_class_str, current_depth, max_depth) ==
    IF current_depth < max_depth
    THEN browse_recursive(st, child, current_depth + 1, max_depth)
    ELSE st

\* lines 184-186
Descend(st, child, node_class_str, current_depth, max_depth) ==
    IF node_class_str = "Object" /\ current_depth < max_depth
    THEN browse_recursive(st, child, current_depth + 1, max_depth)
    ELSE st

\* mutant: the record is put in front of the list
Collect_in_front(nodes, enhanced_info) == <<enhanced_info>> \o nodes

\* all_nodes.append(enhanced_info), line 182
Collect(nodes, enhanced_info) == Append(nodes, enhanced_info)

\* mutant: the error of get_children() is not caught in browse_recursive and
\* ends every loop above it
ListingFailed_ends_traversal(st) == <<>>

\* get_children() raised: the handler of lines 192-193 ends this call of
\* browse_recursive only
ListingFailed(st) == Pop(st)

\* mutant: the depth tag counts the start node's children as level 1
RecursiveNodeInfo_counts_from_one(path, node_class_str, current_depth, outcome) ==
    [path |-> path,
     node_class |-> node_class_str,
     depth |-> current_depth + 1,
     value |-> IF node_class_str # "Variable" THEN "None"
               ELSE IF outcome = "value_fail" THEN "error" ELSE "value"]

\* the dict of lines 162-178: for a Variable the handler of line 177 serves
\* read_value and read_data_type alike (value_fail stands for either); the
\* fields enhance_node_info derives from the names are not carried here
RecursiveNodeInfo(path, node_class_str, current_depth, outcome) ==
    [path |-> path,
     node_class |-> node_class_str,
     depth |-> current_depth,
     value |-> IF node_class_str # "Variable" THEN "None"
               ELSE IF outcome = "value_fail" THEN "error" ELSE "value"]

\* recursive_browse, lines 129-133 and 195-197: the membership test, then
\* browse_recursive(start_node, 0) up to its first await
recursive_browse(s, max_depth) ==
    /\ family = "opcua"
    /\ ex_call.op = "none"
    /\ IF ~ClientsHas(clients, s)
       THEN /\ api' = "NotConnected"
            /\ UNCHANGED <<ex_call, ex_io, all_nodes, ex_stack>>
       ELSE LET st == browse_recursive(<<>>, <<>>, 0, max_depth)
            IN /\ ex_call' = [op |-> "recursive_browse",
                              pc |-> IF st = <<>> THEN "returned" ELSE "running",
                              h |-> ClientOf(s), max_depth |-> max_depth]
               /\ ex_stack' = st
               /\ ex_io' = IF st = <<>> THEN ex_io
                           ELSE [ex_io EXCEPT !.listed = @ \cup {<<>>}]
               /\ all_nodes' = <<>>
               /\ api' = IF st = <<>> THEN "nodes" ELSE api
    /\ UNCHANGED <<managers, parser, nodes_info>>

\* get_children() of the node of the top frame answers, line 151
rb_get_children(ok, k) ==
    /\ family = "opcua"
    /\ ex_call.op = "recursive_browse"
    /\ ex_call.pc = "running"
    /\ ~Top(ex_stack).listed
    /\ IF ok THEN k <= ChildrenLeft ELSE k = 0
    /\ LET st == Unwind(IF ok THEN Listed(ex_stack, k)
                        ELSE ListingFailed(ex_stack))
       IN /\ ex_stack' = st
          /\ ex_io' = [ex_io EXCEPT
                          !.reported = @ \cup ChildPaths(Top(ex_stack).path, k),
                          !.list_failed = IF ok THEN @
                                          ELSE @ \cup {Top(ex_stack).path}]
          /\ Return(st)
    /\ UNCHANGED <<managers, parser, nodes_info, all_nodes>>

\* one turn of the loop of lines 153-190 up to the next await: the reads of
\* the child, the record, and the call of browse_recursive for an Object
rb_child(node_class_num, outcome) ==
    /\ family = "opcua"
    /\ ex_call.op = "recursive_browse"
    /\ ex_call.pc = "running"
    /\ Top(ex_stack).listed
    /\ LET node_class_str == NODE_CLASS_MAP(node_class_num)
           child == CurrentChild(ex_stack)
           current_depth == Top(ex_stack).depth
           taken == Taken(ex_stack)
           entered == IF outcome = "attr_fail" THEN taken
                      ELSE Descend(taken, child, node_class_str,
                                   current_depth, ex_call.max_depth)
           st == Unwind(entered)
       IN /\ outcome \in {"attr_fail", "ok", "value_fail"}
          /\ outcome = "attr_fail" => node_class_num = 1
          /\ outcome = "value_fail" => node_class_str = "Variable"
          /\ all_nodes' =
                IF outcome = "attr_fail" THEN all_nodes
                ELSE Collect(all_nodes,
                             RecursiveNodeInfo(child, node_class_str,
                                               current_depth, outcome))
          /\ ex_io' =
                [ChildIo(ex_io, child, node_class_str, outcome) EXCEPT
                    !.probed = ex_io.probed,
                    !.listed = IF entered # taken THEN @ \cup {child} ELSE @]
          /\ ex_stack' = st
          /\ Return(st)
    /\ UNCHANGED <<managers, parser, nodes_info>>

(* ------------------------- get_all_namespaces ------------------------- *)
\* get_all_namespaces, lines 103-112: the membership test, then the read of
\* the NamespaceArray node
get_all_namespaces(s) ==
    /\ family = "opcua"
    /\ ex_call.op = "none"
    /\ IF ~ClientsHas(clients, s)
       THEN /\ api' = "NotConnected"
            /\ UNCHANGED <<ex_call, ex_io>>
       ELSE /\ ex_call' = [op |-> "get_all_namespaces", pc |-> "reading",
                           h |-> ClientOf(s), max_depth |-> 0]
            /\ ex_io' = [ex_io EXCEPT !.namespaces = TRUE]
            /\ UNCHANGED api
    /\ UNCHANGED <<managers, parser, ex_stack, nodes_info, all_nodes>>

\* the read answers: the list of lines 114-122, or the error of lines 124-126
namespaces_read(ok) ==
    /\ family = "opcua"
    /\ ex_call.op = "get_all_namespaces"
    /\ ex_call.pc = "reading"
    /\ ex_call' = [ex_call EXCEPT !.pc = IF ok THEN "returned" ELSE "raised"]
    /\ api' = IF ok THEN "namespaces" ELSE "ReadError"
    /\ UNCHANGED <<managers, parser, ex_stack, nodes_info, all_nodes, ex_io>>

(* ----------------------------- OPCUAParser ---------------------------- *)
\* a str is the sequence of its characters
UpperCase ==
    <<"A", "B", "C", "D", "E", "F", "G", "H", "I", "J", "K", "L", "M", "N", "O", "P", "Q", "R", "S", "T", "U", "V", "W", "X", "Y", "Z">>
LowerCase ==
    <<"a", "b", "c", "d", "e", "f", "g", "h", "i", "j", "k", "l", "m", "n", "o", "p", "q", "r", "s", "t", "u", "v", "w", "x", "y", "z">>

\* str.lower(), character by character
LowerChar(c) ==
    IF \E i \in 1..Len(UpperCase) : UpperCase[i] = c
    THEN LowerCase[CHOOSE i \in 1..Len(UpperCase) : UpperCase[i] = c]
    ELSE c
lower(str) == [i \in 1..Len(str) |-> LowerChar(str[i])]

\* term in browse_name
In(term, str) ==
    \E i \in 1..(Len(str) - Len(term) + 1) :
        SubSeq(str, i, i + Len(term) - 1) = term

\* any(term in browse_name for term in terms)
AnyTerm(terms, str) == \E term \in terms : In(term, str)

\* useful_system_vars, lines 124-127
useful_system_vars ==
    {<<"s", "e", "r", "v", "e", "r", "n", "a", "m", "e">>,
     <<"s", "e", "r", "v", "e", "r", "s", "t", "a", "t", "u", "s">>,
     <<"c", "u", "r", "r", "e", "n", "t", "t", "i", "m", "e">>,
     <<"s", "t", "a", "r", "t", "t", "i", "m", "e">>,
     <<"b", "u", "i", "l", "d", "i", "n", "f", "o">>,
     <<"s", "e", "r", "v", "i", "c", "e", "l", "e", "v", "e", "l">>}

\* mutant: the names are compared as they are written
should_include_node_case_sensitive(info) ==
    IF info.namespace = 0
    THEN \/ info.browse_name \in useful_system_vars
         \/ info.display_name \in useful_system_vars
    ELSE info.namespace > 0

\* should_include_node, lines 116-135
should_include_node(info) ==
    IF info.namespace = 0
    THEN \/ lower(info.browse_name) \in useful_system_vars
         \/ lower(info.display_name) \in useful_system_vars
    ELSE info.namespace > 0

\* the lists of terms of lines 161-169
temperature_terms == {<<"t", "e", "m", "p">>,
                      <<"t", "e", "m", "p", "e", "r", "a", "t", "u", "r", "e">>,
                      <<"h", "e", "a", "t">>}
pressure_terms == {<<"p", "r", "e", "s", "s", "u", "r", "e">>,
                   <<"p", "r", "e", "s", "s">>}
speed_terms == {<<"s", "p", "e", "e", "d">>,
                <<"r", "p", "m">>,
                <<"v", "e", "l", "o", "c", "i", "t", "y">>}
electrical_terms == {<<"v", "o", "l", "t">>,
                     <<"v", "o", "l", "t", "a", "g", "e">>,
                     <<"p", "o", "w", "e", "r">>}
counter_terms == {<<"c", "o", "u", "n", "t">>,
                  <<"p", "r", "o", "d", "u", "c", "t", "i", "o", "n">>,
                  <<"t", "o", "t", "a", "l">>}

\* mutant: the counter terms are tried first
category_counter_first(browse_name) ==
    IF AnyTerm(counter_terms, browse_name) THEN "counter"
    ELSE IF AnyTerm(temperature_terms, browse_name) THEN "temperature"
    ELSE IF AnyTerm(pressure_terms, browse_name) THEN "pressure"
    ELSE IF AnyTerm(speed_terms, browse_name) THEN "speed"
    ELSE IF AnyTerm(electrical_terms, browse_name) THEN "electrical"
    ELSE "other"

\* the if/elif chain of lines 161-172, browse_name already in lower case
category(browse_name) ==
    IF AnyTerm(temperature_terms, browse_name) THEN "temperature"
    ELSE IF AnyTerm(pressure_terms, browse_name) THEN "pressure"
    ELSE IF AnyTerm(speed_terms, browse_name) THEN "speed"
    ELSE IF AnyTerm(electrical_terms, browse_name) THEN "electrical"
    ELSE IF AnyTerm(counter_terms, browse_name) THEN "counter"
    ELSE "other"

\* enhance_node_info, lines 156-174: the relevance flag and the category
\* (the parsed node id and data type are not carried here)
enhance_node_info(raw_node) ==
    [call |-> "enhance_node_info",
     is_relevant |-> should_include_node(raw_node),
     category |-> category(lower(raw_node.browse_name))]

\* the browse names and display names tried
BrowseNames ==
    {<<"S", "e", "r", "v", "e", "r", "S", "t", "a", "t", "u", "s">>,
     <<"S", "E", "R", "V", "E", "R", "N", "A", "M", "E">>,
     <<"s", "e", "r", "v", "i", "c", "e", "l", "e", "v", "e", "l">>,
     <<"S", "o", "m", "e", "t", "h", "i", "n", "g", "E", "l", "s", "e">>,
     <<"S", "t", "a", "t", "u", "s">>,
     <<>>,
     <<"M", "o", "t", "o", "r", "_", "S", "p", "e", "e", "d", "_", "R", "P", "M">>,
     <<"T", "a", "n", "k", "_", "P", "r", "e", "s", "s", "u", "r", "e", "_", "1">>,
     <<"L", "i", "n", "e", "_", "V", "o", "l", "t", "a", "g", "e">>,
     <<"T", "e", "m", "p", "_", "P", "r", "e", "s", "s", "u", "r", "e">>,
     <<"T", "o", "t", "a", "l", "_", "P", "o", "w", "e", "r">>,
     <<"V", "a", "l", "v", "e">>}
DisplayNames ==
    {<<"S", "e", "r", "v", "e", "r", "S", "t", "a", "t", "u", "s">>,
     <<"B", "u", "i", "l", "d", "I", "n", "f", "o">>,
     <<"V", "a", "l", "v", "e">>,
     <<>>}

\* a call of OPCUAParser.should_include_node(node_info)
call_should_include_node ==
    /\ enhanced.call = "none"
    /\ enhanced' = [call |-> "should_include_node",
                    is_relevant |-> should_include_node(node_info),
                    category |-> "none"]
    /\ UNCHANGED <<managers, explorer, api, node_info, node_id_str,
                   node_id_parsed>>

\* a call of OPCUAParser.enhance_node_info(node_info)
call_enhance_node_info ==
    /\ enhanced.call = "none"
    /\ enhanced' = enhance_node_info(node_info)
    /\ UNCHANGED <<managers, explorer, api, node_info, node_id_str,
                   node_id_parsed>>

(* ----------------------- OPCUAParser.parse_node_id -------------------- *)
Digits == <<"0", "1", "2", "3", "4", "5", "6", "7", "8", "9">>
IsDigit(c) == \E d \in 1..10 : Digits[d] = c
IsLetter(c) ==
    \/ \E i \in 1..Len(UpperCase) : UpperCase[i] = c
    \/ \E i \in 1..Len(LowerCase) : LowerCase[i] = c
\* the characters \s matches and str.strip() removes
IsSpace(c) == c \in {" ", "\t", "\n", "\r", "\f"}

\* f"{n}" for an int n
RECURSIVE NatStr(_)
NatStr(n) ==
    IF n < 10 THEN <<Digits[n + 1]>>
    ELSE NatStr(n \div 10) \o <<Digits[(n % 10) + 1]>>
IntStr(n) == IF n < 0 THEN <<"-">> \o NatStr(0 - n) ELSE NatStr(n)

\* the value of a str of decimal digits
RECURSIVE DigitsValue(_)
DigitsValue(str) ==
    IF str = <<>> THEN 0
    ELSE 10 * DigitsValue(SubSeq(str, 1, Len(str) - 1))
            + (CHOOSE d \in 0..9 : Digits[d + 1] = str[Len(str)])

\* str.strip()
RECURSIVE strip(_)
strip(str) ==
    IF str = <<>> THEN str
    ELSE IF IsSpace(str[1]) THEN strip(Tail(str))
    ELSE IF IsSpace(str[Len(str)]) THEN strip(SubSeq(str, 1, Len(str) - 1))
    ELSE str

\* int(str): surrounding white space and one sign are accepted, then only
\* decimal digits; anything else raises ValueError (ok = FALSE)
int(str) ==
    LET body == strip(str)
        signed == body # <<>> /\ body[1] \in {"+", "-"}
        digits == IF signed THEN Tail(body) ELSE body
    IN IF digits # <<>> /\ \A i \in 1..Len(digits) : IsDigit(digits[i])
       THEN [ok |-> TRUE,
             value |-> IF signed /\ body[1] = "-"
                       THEN 0 - DigitsValue(digits) ELSE DigitsValue(digits)]
       ELSE [ok |-> FALSE, value |-> 0]

\* the literals of lines 15-29
IDENTIFIER_KEY == <<"I", "d", "e", "n", "t", "i", "f", "i", "e", "r", "=">>
NAMESPACE_KEY == <<"N", "a", "m", "e", "s", "p", "a", "c", "e", "I", "n", "d", "e", "x", "=">>
TYPE_KEY == <<"N", "o", "d", "e", "I", "d", "T", "y", "p", "e", "=">>
UNKNOWN == <<"U", "n", "k", "n", "o", "w", "n">>
NUMERIC_TYPE == <<"N", "u", "m", "e", "r", "i", "c">>
STRING_TYPE == <<"S", "t", "r", "i", "n", "g">>
NS_PREFIX == <<"n", "s", "=">>

\* str[i:].startswith(pat), 1-based
StartsAt(pat, str, i) ==
    /\ i + Len(pat) - 1 <= Len(str)
    /\ SubSeq(str, i, i + Len(pat) - 1) = pat

NoMatch == [matched |-> FALSE, group |-> <<>>]

\* mutant: the group runs to the end of the str, commas included
FieldSearch_through_commas(key, str) ==
    LET starts == {i \in 1..Len(str) :
                      /\ StartsAt(key, str, i)
                      /\ i + Len(key) <= Len(str)
                      /\ str[i + Len(key)] # ","}
    IN IF starts = {} THEN NoMatch
       ELSE LET i == CHOOSE j \in starts : \A k \in starts : j <= k
            IN [matched |-> TRUE,
                group |-> SubSeq(str, i + Len(key), Len(str))]

\* re.search(key + r'([^,]+)', str), lines 15-16: the leftmost place where
\* key is followed by a character that is no comma; the group is the longest
\* run of such characters
FieldSearch(key, str) ==
    LET starts == {i \in 1..Len(str) :
                      /\ StartsAt(key, str, i)
                      /\ i + Len(key) <= Len(str)
                      /\ str[i + Len(key)] # ","}
    IN IF starts = {} THEN NoMatch
       ELSE LET i == CHOOSE j \in starts : \A k \in starts : j <= k
                from == i + Len(key)
                to == CHOOSE e \in from..Len(str) :
                         /\ \A j \in from..e : str[j] # ","
                         /\ e = Len(str) \/ str[e + 1] = ","
            IN [matched |-> TRUE, group |-> SubSeq(str, from, to)]

\* re.search(r'NodeIdType=.*?([A-Za-z]+):\s*(\d+)', str), line 17: after the
\* leftmost usable NodeIdType=, the lazy .*? stops at the first place where a
\* run of letters reaches a ':' that a number follows; group 1 is that run
TypeSearch(str) ==
    LET key == TYPE_KEY
        \* ':' at position q is followed by \s*(\d+)
        ColonThenNumber(q) ==
            /\ q <= Len(str) /\ str[q] = ":"
            /\ \E d \in (q + 1)..Len(str) :
                  /\ IsDigit(str[d])
                  /\ \A j \in (q + 1)..(d - 1) : IsSpace(str[j])
        RunEnd(p) == CHOOSE e \in p..Len(str) :
                        /\ \A j \in p..e : IsLetter(str[j])
                        /\ e = Len(str) \/ ~IsLetter(str[e + 1])
        cands == {p \in 1..Len(str) :
                     IsLetter(str[p]) /\ ColonThenNumber(RunEnd(p) + 1)}
        usable(i) == {p \in cands :
                         /\ p >= i + Len(key)
                         /\ \A j \in (i + Len(key))..(p - 1) : str[j] # "\n"}
        starts == {i \in 1..Len(str) :
                      StartsAt(key, str, i) /\ usable(i) # {}}
    IN IF starts = {} THEN NoMatch
       ELSE LET i == CHOOSE j \in starts : \A k \in starts : j <= k
                p == CHOOSE c \in usable(i) : \A o \in usable(i) : c <= o
            IN [matched |-> TRUE, group |-> SubSeq(str, p, RunEnd(p))]

\* parse_node_id(node_id_str), lines 13-46: the dict of lines 31-38, or the
\* dict of the handler of lines 40-46 when int() raised
parse_node_id(str) ==
    LET identifier_match == FieldSearch(IDENTIFIER_KEY, str)
        namespace_match == FieldSearch(NAMESPACE_KEY, str)
        node_type_match == TypeSearch(str)
        identifier == IF identifier_match.matched
                      THEN identifier_match.group ELSE UNKNOWN
        namespace == IF namespace_match.matched
                     THEN int(namespace_match.group)
                     ELSE [ok |-> TRUE, value |-> 0]
        node_type == IF node_type_match.matched
                     THEN node_type_match.group ELSE UNKNOWN
        ns == NS_PREFIX \o IntStr(namespace.value) \o <<";">>
        formatted_id == IF node_type = NUMERIC_TYPE THEN <<"i", "=">> \o identifier
                        ELSE IF node_type = STRING_TYPE THEN <<"s", "=">> \o identifier
                        ELSE ns \o identifier
    IN IF namespace.ok
       THEN [keys |-> {"raw", "identifier", "namespace", "node_type",
                       "formatted", "simple"},
             raw |-> str,
             identifier |-> identifier,
             namespace |-> namespace.value,
             node_type |-> node_type,
             formatted |-> ns \o formatted_id,
             simple |-> IF node_type = NUMERIC_TYPE
                        THEN ns \o <<"i", "=">> \o identifier
                        ELSE ns \o <<"s", "=">> \o identifier]
       ELSE [keys |-> {"raw", "formatted", "simple", "error"},
             raw |-> str,
             identifier |-> <<>>,
             namespace |-> 0,
             node_type |-> <<>>,
             formatted |-> str,
             simple |-> str]

\* str(child.nodeid) as the docstring of parse_node_id shows it (line 10):
\* the identifier, the namespace index, then the NodeIdType member with its
\* number
NodeIdTypes ==
    {<<<<"T", "w", "o", "B", "y", "t", "e">>, 0>>,
     <<<<"F", "o", "u", "r", "B", "y", "t", "e">>, 1>>,
     <<NUMERIC_TYPE, 2>>, <<STRING_TYPE, 3>>}
NativeRepr(identifier, k, type) ==
    <<"N", "o", "d", "e", "I", "d", "(", "I", "d", "e", "n", "t", "i", "f", "i", "e", "r", "=">>
       \o identifier
       \o <<",", " ", "N", "a", "m", "e", "s", "p", "a", "c", "e", "I", "n", "d", "e", "x", "=">>
       \o IntStr(k)
       \o <<",", " ", "N", "o", "d", "e", "I", "d", "T", "y", "p", "e", "=">>
       \o <<"<", "N", "o", "d", "e", "I", "d", "T", "y", "p", "e", ".">>
       \o type[1] \o <<":", " ">> \o IntStr(type[2]) \o <<">", ")">>

\* the identifiers of the nodes: integers for the numeric encodings, a
\* quoted name for String
Identifiers == {0, 3, 84, 2253}
NativeReprs ==
    {NativeRepr(IntStr(n), k, type) :
        n \in Identifiers, k \in 0..MaxNs,
        type \in NodeIdTypes \ {<<STRING_TYPE, 3>>}}
    \cup {NativeRepr(<<"'", "T", "e", "m", "p", "e", "r", "a", "t", "u", "r", "e", "'">>,
                     k, <<STRING_TYPE, 3>>) : k \in 0..MaxNs}

\* strings the route /parse-node can be given that are no such repr
OtherStrings ==
    {<<>>,
     <<"i", "=", "8", "4">>,
     <<"n", "s", "=", "2", ";", "i", "=", "3">>,
     <<"n", "s", "=", "2", ";", "s", "=", "T", "e", "m", "p", "e", "r", "a", "t", "u", "r", "e">>,
     <<"I", "d", "e", "n", "t", "i", "f", "i", "e", "r", "=", "8", "4">>,
     <<"N", "o", "d", "e", "I", "d", "(", "I", "d", "e", "n", "t", "i", "f", "i", "e", "r", "=", "8", "4", ",", " ", "N", "o", "d", "e", "I", "d", "T", "y", "p", "e", "=", "<", "N", "o", "d", "e", "I", "d", "T", "y", "p", "e", ".", "N", "u", "m", "e", "r", "i", "c", ":", " ", "2", ">", ",", " ", "N", "a", "m", "e", "s", "p", "a", "c", "e", "I", "n", "d", "e", "x", "=", "0", ")">>,
     <<"N", "o", "d", "e", "I", "d", "(", "I", "d", "e", "n", "t", "i", "f", "i", "e", "r", "=", ",", " ", "N", "a", "m", "e", "s", "p", "a", "c", "e", "I", "n", "d", "e", "x", "=", "1", ",", " ", "N", "o", "d", "e", "I", "d", "T", "y", "p", "e", "=", "<", "N", "o", "d", "e", "I", "d", "T", "y", "p", "e", ".", "N", "u", "m", "e", "r", "i", "c", ":", " ", "2", ">", ")">>,
     <<"N", "o", "d", "e", "I", "d", "(", "I", "d", "e", "n", "t", "i", "f", "i", "e", "r", "=", "3", ",", " ", "N", "a", "m", "e", "s", "p", "a", "c", "e", "I", "n", "d", "e", "x", "=", "x", ",", " ", "N", "o", "d", "e", "I", "d", "T", "y", "p", "e", "=", "<", "N", "o", "d", "e", "I", "d", "T", "y", "p", "e", ".", "F", "o", "u", "r", "B", "y", "t", "e", ":", " ", "1", ">", ")">>}

\* the dict returned, with the caller that asked for it
Called(caller, d) ==
    [call |-> caller, keys |-> d.keys, raw |-> d.raw,
     identifier |-> d.identifier, namespace |-> d.namespace,
     node_type |-> d.node_type, formatted |-> d.formatted,
     simple |-> d.simple]

\* GET /opcua/parse-node/{server_name}: parse_node_id of the query
\* string; no server is connected, so no value is read
parse_specific_node ==
    /\ node_id_parsed.call = "none"
    /\ node_id_parsed' = Called("parse_specific_node", parse_node_id(node_id_str))
    /\ UNCHANGED <<managers, explorer, api, node_info, enhanced, node_id_str>>

\* enhance_node_info, lines 145-148: the explorer passes str(child.nodeid)
enhance_node_id ==
    /\ node_id_parsed.call = "none"
    /\ node_id_str \in NativeReprs
    /\ node_id_parsed' = Called("enhance_node_info", parse_node_id(node_id_str))
    /\ UNCHANGED <<managers, explorer, api, node_info, enhanced, node_id_str>>

(* ---------------------------- specification --------------------------- *)
\* the tasks of OPCUAManager, and the tasks and worker threads of
\* EthernetIPManager, but for the end of a retry delay
Lifecycle ==
    \/ initialize
    \/ connect_all_servers_background
    \/ \E t \in 1..Len(sup) : supervisor_start(t)
    \/ \E t \in 1..Len(sup) : simple_connect_ok(t)
    \/ \E t \in 1..Len(sup) : simple_connect_fail(t)
    \/ \E t \in 1..Len(sup) : create_subscription_ok(t)
    \/ \E t \in 1..Len(sup) : create_subscription_fail(t)
    \/ monitor_cycle
    \/ monitor_probe_ok
    \/ monitor_probe_fail
    \/ shutdown_begin
    \/ shutdown_disconnect
    \/ shutdown_return
    \/ eip_initialize
    \/ eip_connect_all_devices_background
    \/ \E t \in 1..Len(sup) : eip_supervisor_start(t)
    \/ \E t \in 1..Len(sup) : eip_blocking_connect_ok(t)
    \/ \E t \in 1..Len(sup) : eip_blocking_connect_fail(t)
    \/ \E t \in 1..Len(sup) : eip_connect_single_device_done(t)
    \/ eip_shutdown_begin
    \/ \E ok \in BOOLEAN : eip_blocking_close(ok)
    \/ eip_shutdown_next
    \/ eip_pool_drained

\* the lifecycle, the retry delays and the reconnect requests of the API
Next ==
    \/ Lifecycle
    \/ \E t \in 1..Len(sup) : supervisor_wake(t)
    \/ \E t \in 1..Len(sup) : eip_supervisor_wake(t)
    \/ \E s \in ServerNames : reconnect_server(s)

\* the lifecycle, the read calls of the API and the polling tasks
NextApi ==
    \/ Lifecycle
    \/ \E s \in ServerNames \cup {UnknownName}, ok \in BOOLEAN :
          read_node_value(s, ok)
    \/ \E s \in ServerNames \cup {UnknownName}, ok \in BOOLEAN :
          eip_read_tag(s, ok)
    \/ \E s \in ServerNames : eip_monitor_tags_loop(s)
    \/ \E s \in ServerNames, n \in 0..tag_configs :
          eip_blocking_read_multiple_tags(s, n)
    \/ \E s \in ServerNames : eip_read_multiple_tags_done(s)

\* the retry loops alone: no probe, no shutdown, no API call
RetryLoops ==
    \/ initialize
    \/ connect_all_servers_background
    \/ \E t \in 1..Len(sup) : supervisor_start(t)
    \/ \E t \in 1..Len(sup) : supervisor_wake(t)
    \/ \E t \in 1..Len(sup) : simple_connect_ok(t)
    \/ \E t \in 1..Len(sup) : simple_connect_fail(t)
    \/ \E t \in 1..Len(sup) : create_subscription_ok(t)
    \/ \E t \in 1..Len(sup) : create_subscription_fail(t)
    \/ eip_initialize
    \/ eip_connect_all_devices_background
    \/ \E t \in 1..Len(sup) : eip_supervisor_start(t)
    \/ \E t \in 1..Len(sup) : eip_supervisor_wake(t)
    \/ \E t \in 1..Len(sup) : eip_blocking_connect_ok(t)
    \/ \E t \in 1..Len(sup) : eip_blocking_connect_fail(t)
    \/ \E t \in 1..Len(sup) : eip_connect_single_device_done(t)

Spec == Init /\ [][Next]_vars
SpecDelay == InitDelay /\ [][RetryLoops]_vars

\* the lifecycle with further calls of shutdown()
NextAgain ==
    \/ Next
    \/ shutdown_again
    \/ eip_shutdown_again

SpecAgain == Init /\ [][NextAgain]_vars
\* with the budget of one attempt no retry delay is ever slept
SpecFleet == InitFleet /\ [][Lifecycle]_vars
SpecApi == InitApi /\ [][NextApi]_vars

\* the OPC UA manager with one endpoint and the budget of one attempt
InitExplore ==
    /\ family = "opcua"
    /\ servers = <<"s1">>
    /\ config_retry_delay = 2
    /\ tag_configs = 0
    /\ node_info = NoNodeInfo
    /\ node_id_str = <<>>
    /\ endpoint = Healthy
    /\ Constructed
    /\ retry_attempts = 1

\* the connection of the endpoint and shutdown(), the read call of the API
\* and one call of the explorer
NextExplore ==
    \/ initialize
    \/ connect_all_servers_background
    \/ \E t \in 1..Len(sup) : supervisor_start(t)
    \/ \E t \in 1..Len(sup) : simple_connect_ok(t)
    \/ \E t \in 1..Len(sup) : simple_connect_fail(t)
    \/ \E t \in 1..Len(sup) : create_subscription_ok(t)
    \/ \E t \in 1..Len(sup) : create_subscription_fail(t)
    \/ shutdown_begin
    \/ shutdown_disconnect
    \/ shutdown_return
    \/ \E s \in ServerNames \cup {UnknownName}, ok \in BOOLEAN :
          read_node_value(s, ok)
    \/ \E s \in ServerNames \cup {UnknownName} : browse_server_nodes(s)
    \/ \E ok \in BOOLEAN, k \in 0..MaxNodes : browse_get_children(ok, k)
    \/ \E n \in NodeClasses, o \in Outcomes("Variable") : browse_child(n, o)
    \/ \E s \in ServerNames \cup {UnknownName}, d \in -1..MaxDepth :
          recursive_browse(s, d)
    \/ \E ok \in BOOLEAN, k \in 0..MaxNodes : rb_get_children(ok, k)
    \/ \E n \in NodeClasses, o \in Outcomes("Variable") : rb_child(n, o)
    \/ \E s \in ServerNames \cup {UnknownName} : get_all_namespaces(s)
    \/ \E ok \in BOOLEAN : namespaces_read(ok)

SpecExplore == InitExplore /\ [][NextExplore]_vars

\* the endpoint connects at the first attempt; then one call of the explorer
NextTree ==
    \/ initialize
    \/ connect_all_servers_background
    \/ \E t \in 1..Len(sup) : supervisor_start(t)
    \/ \E t \in 1..Len(sup) : simple_connect_ok(t)
    \/ \E t \in 1..Len(sup) : create_subscription_ok(t)
    \/ \E s \in ServerNames : browse_server_nodes(s)
    \/ \E ok \in BOOLEAN, k \in 0..MaxNodes : browse_get_children(ok, k)
    \/ \E n \in NodeClasses, o \in Outcomes("Variable") : browse_child(n, o)
    \/ \E s \in ServerNames, d \in -1..MaxDepth : recursive_browse(s, d)
    \/ \E ok \in BOOLEAN, k \in 0..MaxNodes : rb_get_children(ok, k)
    \/ \E n \in NodeClasses, o \in Outcomes("Variable") : rb_child(n, o)

SpecTree == InitExplore /\ [][NextTree]_vars

\* a node_info of any namespace and names, no manager started
InitParser ==
    /\ family = "opcua"
    /\ servers = <<"s1">>
    /\ config_retry_delay = 2
    /\ tag_configs = 0
    /\ node_info \in [namespace : 0..MaxNs, browse_name : BrowseNames,
                      display_name : DisplayNames]
    /\ node_id_str = <<>>
    /\ endpoint = Healthy
    /\ Constructed
    /\ retry_attempts = 1

\* the two entry points of the parser
NextParser ==
    \/ call_should_include_node
    \/ call_enhance_node_info

SpecParser == InitParser /\ [][NextParser]_vars


\* a node id of any of the forms above, no manager started
InitNodeId ==
    /\ family = "opcua"
    /\ servers = <<"s1">>
    /\ config_retry_delay = 2
    /\ tag_configs = 0
    /\ node_info = NoNodeInfo
    /\ node_id_str \in NativeReprs \cup OtherStrings
    /\ endpoint = Healthy
    /\ Constructed
    /\ retry_attempts = 1

\* the two callers of parse_node_id
NextNodeId ==
    \/ parse_specific_node
    \/ enhance_node_id

SpecNodeId == InitNodeId /\ [][NextNodeId]_vars

(* ------------------------ an outage of the endpoint ------------------- *)
\* handle h belongs to a session the outage ended; a Client never reopens it
Broken(h) == h <= endpoint.broken

\* the server of the connected endpoint stops answering: every session open
\* at that moment is gone for good
endpoint_lost ==
    /\ family = "opcua"
    /\ endpoint.phase = "up"
    /\ clients # <<>>
    /\ \A t \in 1..Len(sup) : sup[t].pc # "subscribing"
    /\ endpoint' = [phase |-> "lost", broken |-> Len(handles)]
    /\ UNCHANGED <<family, servers, retry_attempts, config_retry_delay,
                   tag_configs, read_tasks, is_running, initialized, clients,
                   subscriptions, connection_metrics, monitoring_task,
                   mon_queue, bg_task, sup, connection_tasks, handles,
                   closeReq, closeAgain, sd_calls, sd_pc, sd_iter, exhausted,
                   api, explorer, parser>>

\* the server accepts connections again, and goes on doing so
endpoint_recovers ==
    /\ family = "opcua"
    /\ endpoint.phase = "lost"
    /\ endpoint' = [endpoint EXCEPT !.phase = "recovered"]
    /\ UNCHANGED <<family, servers, retry_attempts, config_retry_delay,
                   tag_configs, read_tasks, is_running, initialized, clients,
                   subscriptions, connection_metrics, monitoring_task,
                   mon_queue, bg_task, sup, connection_tasks, handles,
                   closeReq, closeAgain, sd_calls, sd_pc, sd_iter, exhausted,
                   api, explorer, parser>>

\* client.connect() of line 120 against this server
connect_answered(t) == endpoint.phase # "lost" /\ simple_connect_ok(t)
connect_refused(t) == endpoint.phase = "lost" /\ simple_connect_fail(t)

\* read_browse_name() of line 153 on the client of the snapshot
probe_answered ==
    /\ monitoring_task = "probing"
    /\ ~Broken(mon_queue[1].h)
    /\ endpoint.phase # "lost"
    /\ monitor_probe_ok
probe_refused ==
    /\ monitoring_task = "probing"
    /\ Broken(mon_queue[1].h) \/ endpoint.phase = "lost"
    /\ monitor_probe_fail

\* one endpoint, any budget
InitRecover ==
    /\ family = "opcua"
    /\ servers = <<"s1">>
    /\ config_retry_delay = 2
    /\ tag_configs = 0
    /\ node_info = NoNodeInfo
    /\ node_id_str = <<>>
    /\ endpoint = Healthy
    /\ Constructed

\* the steps of supervisor task t
SupervisorStep(t) ==
    /\ t \in 1..Len(sup)
    /\ \/ supervisor_start(t)
       \/ supervisor_wake(t)
       \/ connect_answered(t)
       \/ connect_refused(t)
       \/ create_subscription_ok(t)

\* the manager with its monitor and supervisors, no shutdown, and one outage
\* of the server
NextRecover ==
    \/ initialize
    \/ connect_all_servers_background
    \/ \E t \in 1..Len(sup) : supervisor_start(t)
    \/ \E t \in 1..Len(sup) : supervisor_wake(t)
    \/ \E t \in 1..Len(sup) : connect_answered(t)
    \/ \E t \in 1..Len(sup) : connect_refused(t)
    \/ \E t \in 1..Len(sup) : create_subscription_ok(t)
    \/ monitor_cycle
    \/ probe_answered
    \/ probe_refused
    \/ endpoint_lost
    \/ endpoint_recovers

\* the event loop runs every task whose await has completed: the monitor and
\* each supervisor take their next step
SpecRecover ==
    /\ InitRecover
    /\ [][NextRecover]_vars
    /\ WF_vars(monitor_cycle \/ probe_answered \/ probe_refused)
    /\ \A t \in 1..(1 + MaxRelaunch) : WF_vars(SupervisorStep(t))

(* ------------------------------ claims -------------------------------- *)
Sups == 1..Len(sup)
InLoop(t) == sup[t].pc \in {"connecting", "subscribing", "sleeping"}
AttemptStarts(t) == sup[t].pc # "connecting" /\ sup'[t].pc = "connecting"
ShutdownSignalled == sd_pc # "idle"

\* C1: once a finite budget of N attempts has failed the status is Error, and
\* no connect attempt is started for that endpoint until a reconnect request.
C1_NoAttemptAfterExhaustion ==
    [][/\ \A s \in exhausted' \ exhausted : connection_metrics'[s].status = ERROR
       /\ \A t \in Sups : sup[t].name \in exhausted => ~AttemptStarts(t)]_vars

\* C2: at most one retry loop is running per endpoint name.
C2_OneLoopPerEndpoint ==
    \A t1, t2 \in Sups :
        InLoop(t1) /\ InLoop(t2) /\ sup[t1].name = sup[t2].name => t1 = t2

\* C3: a failed probe sets the status Error, records the error and removes
\* the endpoint's handle from the registry.
C3_FailedProbeRemovesHandle ==
    [][monitor_probe_fail =>
          /\ connection_metrics'[mon_queue[1].name].status = ERROR
          /\ connection_metrics'[mon_queue[1].name].last_error = "probe_error"
          /\ ~ClientsHas(clients', mon_queue[1].name)]_vars

\* C4: after shutdown is signalled no supervisor starts a connect attempt; a
\* loop that is waiting (not yet run, or asleep) ends at its next step, and a
\* loop whose attempt fails ends without sleeping again.
C4_NoAttemptAfterShutdown ==
    [][ShutdownSignalled =>
          \A t \in Sups :
              /\ ~AttemptStarts(t)
              /\ sup'[t].pc = "sleeping" => sup[t].pc = "sleeping"
              /\ sup[t].pc \in {"start", "sleeping"} /\ sup'[t] # sup[t]
                    => ~Live(t)']_vars

\* C4 witness: an infinite-budget loop the monitor launched has ended after
\* shutdown.
C4_Witness ==
    /\ family = "opcua"
    /\ ShutdownSignalled /\ retry_attempts = 0
    /\ \E t \in Sups : sup[t].origin = "monitor" /\ sup[t].pc = "returned_false"

\* the steps a retry loop may take while it keeps retrying: a failed
\* attempt leads to the delay, the delay to a new attempt
KeepsRetrying(from, to) ==
    \/ from = to
    \/ from = "start" /\ to = "connecting"
    \/ from = "connecting" /\ to \in {"subscribing", "sleeping"}
    \/ from = "subscribing" /\ to = "sleeping"
    \/ from = "sleeping" /\ to = "connecting"

\* C5: with max_attempts = 0 and no shutdown, a failed attempt is always
\* followed by the delay and the delay by a new attempt; the loop ends only
\* by a successful attempt.
C5_InfiniteRetryNeverGivesUp ==
    [][retry_attempts = 0 /\ is_running' =>
          \A t \in Sups :
              \/ KeepsRetrying(sup[t].pc, sup'[t].pc)
              \/ /\ sup'[t].pc = "returned_true"
                 /\ sup[t].pc = IF family = "opcua" THEN "subscribing"
                                ELSE "connecting"
                 /\ ClientsHas(clients, sup[t].name)]_vars

\* C5 witness: an infinite-budget loop is in its delay after a failed attempt.
C5_Witness ==
    /\ family = "opcua"
    /\ retry_attempts = 0 /\ is_running
    /\ \E t \in Sups : sup[t].pc = "sleeping"

\* C6: when shutdown() has returned, every registered handle was asked to close.
C6_EveryHandleAskedToClose ==
    sd_pc = "done" => \A i \in 1..Len(clients) : clients[i].h \in closeReq

\* C7: after shutdown() has completed the registry holds no handle.
C7_RegistryEmptyAfterShutdown ==
    sd_pc = "done" => clients = <<>>

\* C8: initialize() completes in one step, with a metrics entry for every
\* configured endpoint and before any connect attempt was started or finished.
C8_InitializeDoesNotWait ==
    [][~initialized /\ initialized' =>
          /\ DOMAIN connection_metrics' = ServerNames
          /\ \A s \in ServerNames :
                connection_metrics'[s] =
                   IF family = "opcua" THEN NewMetrics ELSE NewEipMetrics
          /\ sup' = <<>> /\ handles' = <<>> /\ clients' = <<>>
          /\ bg_task' = "start"
          /\ family = "opcua" => monitoring_task' = "start"]_vars

\* C8 witness: initialize() has returned and no background task has run yet.
C8_Witness ==
    /\ family = "opcua"
    /\ initialized /\ is_running /\ bg_task = "start" /\ monitoring_task = "start"
    /\ DOMAIN connection_metrics = ServerNames

\* C9: while shutdown is not signalled the monitor task stays alive, and after
\* any probe outcome it goes on to the next endpoint of the cycle, or to the
\* sleep before the next cycle when the probed endpoint was the last.
C9_MonitorSurvivesProbeFailure ==
    [][family = "opcua" /\ is_running' =>
          /\ monitoring_task' \in {"start", "probing", "sleeping"}
          /\ monitoring_task = "probing" /\ Len(mon_queue) > 1
                => monitoring_task' = "probing" /\ mon_queue' \in {mon_queue, Tail(mon_queue)}
          /\ monitoring_task = "probing" /\ Len(mon_queue) = 1
                => \/ monitoring_task' = "probing" /\ mon_queue' = mon_queue
                   \/ monitoring_task' = "sleeping"]_vars

\* C9 witness: in one cycle the probe of s1 has failed and s2 is being probed.
C9_Witness ==
    /\ family = "opcua"
    /\ Len(servers) = 2 /\ is_running
    /\ monitoring_task = "probing" /\ Len(mon_queue) = 1 /\ mon_queue[1].name = "s2"
    /\ ClientsHas(clients, "s1") /\ clients[1].name = "s1"
    /\ connection_metrics["s1"].status = ERROR
    /\ connection_metrics["s1"].last_error = "probe_error"

\* C10: the monitor probes only endpoints whose status is Connected, and a
\* successful probe records the latency and leaves the status Connected.
C10_ProbesOnlyConnected ==
    [][monitor_probe_ok =>
          /\ connection_metrics[mon_queue[1].name].status = CONNECTED
          /\ connection_metrics'[mon_queue[1].name].status = CONNECTED
          /\ connection_metrics'[mon_queue[1].name].latency_ms = "measured"]_vars

\* C11: of the sessions opened for one endpoint name, at most one has not
\* been asked to close.
C11_OneLiveHandlePerName ==
    \A h1, h2 \in 1..Len(handles) :
        /\ handles[h1] = handles[h2]
        /\ h1 \notin closeReq /\ h2 \notin closeReq
        => h1 = h2

\* C12: while a connect attempt of an endpoint is in progress the endpoint's
\* status is Connecting.
C12_ConnectingWhileAttempting ==
    \A t \in Sups :
        sup[t].pc = "connecting"
            => connection_metrics[sup[t].name].status = CONNECTING

\* the status changes of the supervisor state machine, Ready standing for
\* Disconnected before the first attempt and Error re-entering Connecting
StatusMachine ==
    {<<DISCONNECTED, CONNECTING>>, <<READY, CONNECTING>>,
     <<CONNECTING, CONNECTED>>, <<CONNECTING, ERROR>>,
     <<CONNECTED, DISCONNECTED>>, <<ERROR, CONNECTING>>}

\* C13: every change of an endpoint's status is a step of the supervisor
\* state machine.
C13_StatusFollowsStateMachine ==
    [][\A s \in DOMAIN connection_metrics :
          connection_metrics'[s].status # connection_metrics[s].status
             => <<connection_metrics[s].status, connection_metrics'[s].status>>
                   \in StatusMachine]_vars

\* C16: the status is Error only with a finite budget, and only while no
\* retry loop of the endpoint has attempts left.
C16_ErrorMeansExhausted ==
    \A s \in DOMAIN connection_metrics :
        connection_metrics[s].status = ERROR
            => /\ ~infinite_retry
               /\ \A t \in Sups :
                     sup[t].name = s /\ Live(t)
                        => sup[t].attempt >= retry_attempts

\* the live tasks suspended inside a block of code that writes fields of the
\* metrics entry of s when it resumes
PendingWriters(s) ==
    {<<"supervisor", t>> : t \in {u \in Sups : /\ sup[u].name = s
                                               /\ sup[u].pc \in {"connecting",
                                                                 "subscribing"}}}
    \cup (IF monitoring_task = "probing" /\ mon_queue[1].name = s
          THEN {<<"monitor", 0>>} ELSE {})

\* C18: at most one live task is writing the metrics entry of an endpoint.
C18_OneWriterPerEntry ==
    \A s \in ServerNames : Cardinality(PendingWriters(s)) <= 1

\* C19: a reconnect request for a configured endpoint leaves a retry loop
\* running for that endpoint.
C19_ReconnectRelaunchesSupervisor ==
    [][\A s \in ServerNames :
          reconnect_server(s)
             => \E t \in 1..Len(sup') : sup'[t].name = s /\ Live(t)']_vars

\* C14: every connect attempt but the first follows exactly one retry delay,
\* a delay is slept only after a failed attempt that is not the last of the
\* budget, and a finite budget of N attempts runs out on the failure of the
\* N-th attempt, i.e. after N-1 delays.
C14_OneDelayBetweenAttempts ==
    [][\A t \in Sups :
          /\ AttemptStarts(t) => sup[t].pc \in {"start", "sleeping"}
          /\ sup[t].pc = "start" => sup[t].attempt = 0
          /\ sup'[t].pc = "sleeping" /\ sup[t].pc # "sleeping"
                => /\ sup[t].pc \in {"connecting", "subscribing"}
                   /\ ~infinite_retry
                         => /\ sup'[t].attempt = sup[t].attempt + 1
                            /\ sup'[t].attempt < retry_attempts
          /\ sup[t].pc = "sleeping" /\ sup'[t].pc # "sleeping"
                => /\ sup'[t].pc \in {"connecting", "returned_false", "cancelled"}
                   /\ sup'[t].pc = "connecting" => sup'[t].attempt = sup[t].attempt
          /\ (/\ ~infinite_retry /\ is_running
              /\ sup[t].pc \in {"connecting", "subscribing"}
              /\ sup'[t].pc = "returned_false")
                => sup[t].attempt + 1 = retry_attempts]_vars

\* C14 witness: with a budget of two attempts, the second attempt is in
\* progress after the one delay that followed the first failure.
C14_Witness ==
    /\ retry_attempts = 2
    /\ \E t \in Sups : sup[t].pc = "connecting" /\ sup[t].attempt = 1

\* C15: the delay a retry loop sleeps is never below 2, is the configured
\* value when that is at least 2, and is 2 when the configured value is
\* smaller.
C15_DelayIsFlooredAtTwo ==
    \A t \in Sups :
        sup[t].pc = "sleeping"
            => /\ sup[t].delay >= 2
               /\ config_retry_delay >= 2 => sup[t].delay = config_retry_delay
               /\ config_retry_delay < 2 => sup[t].delay = 2

\* C15 witness: a loop sleeps 2 although the configured delay is 0.
C15_Witness ==
    /\ config_retry_delay = 0
    /\ \E t \in Sups : sup[t].pc = "sleeping" /\ sup[t].delay = 2

\* C17: no step lowers the messages_received counter of an endpoint.
C17_MessagesNeverDecrease ==
    [][\A s \in DOMAIN connection_metrics :
          connection_metrics'[s].messages_received
             >= connection_metrics[s].messages_received]_vars

\* C17 witness: the counter of a device whose polling task counted a cycle is
\* still there after shutdown() has returned.
C17_Witness ==
    /\ family = "ethernet_ip"
    /\ sd_pc = "done"
    /\ \E s \in DOMAIN connection_metrics :
          connection_metrics[s].messages_received = 2

\* a step of shutdown() itself
ShutdownStep == sd_pc' # sd_pc \/ sd_calls' # sd_calls

\* C20: a step of a call of shutdown() made after an earlier call returned
\* changes no status and no registry entry, does not end in an error and
\* asks no handle to close that was asked before.
C20_ShutdownIdempotent ==
    [][sd_calls' >= 2 /\ ShutdownStep =>
          /\ connection_metrics' = connection_metrics
          /\ clients' = clients
          /\ sd_pc' # "raised"
          /\ closeAgain' = {}]_vars

\* C21: a call of EthernetIPManager.shutdown() never ends before
\* _thread_pool.shutdown(wait=True), and once it has returned no blocking
\* connect, read or close is running in the pool
C21_ShutdownDrainsPool ==
    family = "ethernet_ip" =>
        /\ sd_pc # "raised"
        /\ (sd_pc = "done" => ~RunningJobs(sup, read_tasks))

\* the registry holds a client of endpoint s that was not asked to close
LiveHandle(s) ==
    \E i \in 1..Len(clients) : clients[i].name = s /\ clients[i].h \notin closeReq

\* a call of read_node_value, browse_server_nodes, recursive_browse or
\* get_all_namespaces for endpoint s
LookupCall(s) ==
    \/ \E ok \in BOOLEAN : read_node_value(s, ok)
    \/ browse_server_nodes(s)
    \/ \E d \in -1..MaxDepth : recursive_browse(s, d)
    \/ get_all_namespaces(s)

\* C22: a call of one of the four lookups for an endpoint with no live
\* handle in the registry is refused at once (ValueError before any request
\* to a client): no explorer call is left in progress, no request is sent,
\* and the registry and the metrics are as before.
C22_NoLiveHandleNotConnected ==
    [][\A s \in ServerNames \cup {UnknownName} :
          (~LiveHandle(s) /\ LookupCall(s)) =>
              /\ api' \in {"NotConnected", "NotInitialized"}
              /\ UNCHANGED <<clients, connection_metrics, ex_call, ex_io>>]_vars

\* the records of a recursive_browse call, by position
Records == 1..Len(all_nodes)
RecordPaths == {all_nodes[i].path : i \in Records}
Recursive == ex_call.op = "recursive_browse"
Browse == ex_call.op = "browse_server_nodes"
Returned == ex_call.pc = "returned"

\* C23: no record of recursive_browse(endpoint, start, max_depth) has a
\* depth above max_depth.
C23_DepthNeverAboveMax ==
    Recursive => \A i \in Records : all_nodes[i].depth <= ex_call.max_depth

\* C23 witness: the call has returned with a record at depth max_depth > 0
\* that is an Object, whose children would be one level too deep.
C23_Witness ==
    /\ Recursive /\ Returned
    /\ ex_call.max_depth > 0
    /\ \E i \in Records :
          /\ all_nodes[i].depth = ex_call.max_depth
          /\ all_nodes[i].node_class = "Object"

\* the record of the node at path p is an Object above max_depth
EnteredRightly(p) ==
    \E i \in Records :
        /\ all_nodes[i].path = p
        /\ all_nodes[i].node_class = "Object"
        /\ all_nodes[i].depth < ex_call.max_depth

\* C24: recursive_browse asks for the children of a node, and returns
\* records of children of a node, only if the node is the start node or an
\* Object whose depth is below max_depth.
C24_DescendsOnlyIntoObjects ==
    Recursive =>
        /\ \A p \in ex_io.listed : p = <<>> \/ EnteredRightly(p)
        /\ \A i \in Records :
              Len(all_nodes[i].path) > 1
                 => EnteredRightly(SubSeq(all_nodes[i].path, 1,
                                          Len(all_nodes[i].path) - 1))

\* C24 witness: the call has returned after it entered an Object, with a
\* record that is no Object and with an Object at depth max_depth.
C24_Witness ==
    /\ Recursive /\ Returned
    /\ \E p \in ex_io.listed : p # <<>>
    /\ \E i \in Records : all_nodes[i].node_class # "Object"
    /\ \E i \in Records :
          /\ all_nodes[i].node_class = "Object"
          /\ all_nodes[i].depth = ex_call.max_depth

\* C25: when a recursive_browse call ends it returns its list, and the list
\* holds every node the server reported whose name and class could be read,
\* whatever get_children() or name reads failed meanwhile.
C25_FailureDoesNotAbort ==
    (Recursive /\ ex_call.pc # "running") =>
        /\ Returned /\ api = "nodes"
        /\ ex_io.reported \ ex_io.attr_failed \subseteq RecordPaths

\* C25 witness: get_children() of the first child raised and the name read
\* of a later child raised, and the call returned with the record of the
\* first child and of a child after the failures.
C25_Witness ==
    /\ Recursive /\ Returned
    /\ <<1>> \in ex_io.list_failed
    /\ <<2>> \in ex_io.attr_failed
    /\ {<<1>>, <<3>>} \subseteq RecordPaths

\* path p comes before path q in depth-first pre-order, siblings in the
\* order reported
PreOrder(p, q) ==
    \/ Len(p) < Len(q) /\ SubSeq(q, 1, Len(p)) = p
    \/ \E k \in 1..Len(p) :
          /\ k <= Len(q)
          /\ SubSeq(p, 1, k - 1) = SubSeq(q, 1, k - 1)
          /\ p[k] < q[k]

\* C26: the records of one recursive_browse call are in depth-first
\* pre-order, siblings in the order the client reported them.
C26_DepthFirstPreOrder ==
    Recursive =>
        \A i, j \in Records :
            i < j => PreOrder(all_nodes[i].path, all_nodes[j].path)

\* C26 witness: the call returned the first child, its child, then the
\* second child.
C26_Witness ==
    /\ Recursive /\ Returned
    /\ Len(all_nodes) = 3
    /\ all_nodes[1].path = <<1>>
    /\ all_nodes[2].path = <<1, 1>>
    /\ all_nodes[3].path = <<2>>

\* C27: browse_server_nodes returns one record for every child whose name
\* and class could be read; a child whose read_value() raised has its
\* record, with the error text as value.
C27_ValueFailureKeepsRecord ==
    (Browse /\ Returned) =>
        /\ \A p \in ex_io.reported \ ex_io.attr_failed :
              Cardinality({i \in 1..Len(nodes_info) : nodes_info[i].path = p}) = 1
        /\ \A i \in 1..Len(nodes_info) :
              nodes_info[i].path \in ex_io.value_failed
                 => nodes_info[i].value = "error"

\* C27 witness: three children, the value read of one of them raised, three
\* records.
C27_Witness ==
    /\ Browse /\ Returned
    /\ Cardinality(ex_io.reported) = 3
    /\ Cardinality(ex_io.value_failed) = 1
    /\ Len(nodes_info) = 3

\* C28: in browse_server_nodes every Variable whose value was asked for has
\* its writability probe attempted, and a value that was read is in the
\* record whatever the data-type read and the probe did.
C28_ProbeIndependentOfValueRead ==
    Browse =>
        \A i \in 1..Len(nodes_info) :
            nodes_info[i].node_class = "Variable" =>
                /\ nodes_info[i].path \in ex_io.probed
                /\ nodes_info[i].path \notin ex_io.value_failed
                      => nodes_info[i].value = "value"

\* the server-metadata names a node of namespace 0 is kept for
AllowList ==
    {<<"s", "e", "r", "v", "e", "r", "n", "a", "m", "e">>,
     <<"s", "e", "r", "v", "e", "r", "s", "t", "a", "t", "u", "s">>,
     <<"c", "u", "r", "r", "e", "n", "t", "t", "i", "m", "e">>,
     <<"s", "t", "a", "r", "t", "t", "i", "m", "e">>,
     <<"b", "u", "i", "l", "d", "i", "n", "f", "o">>,
     <<"s", "e", "r", "v", "i", "c", "e", "l", "e", "v", "e", "l">>}

\* two names are equal but for the case of their letters
SameIgnoringCase(a, b) ==
    /\ Len(a) = Len(b)
    /\ \A i \in 1..Len(a) : LowerChar(a[i]) = LowerChar(b[i])
Allowed(name) == \E u \in AllowList : SameIgnoringCase(name, u)

\* C29: should_include_node is true exactly when the namespace index is not
\* 0, or it is 0 and the browse name or the display name is, but for case,
\* one of the six server-metadata names.
C29_ShouldIncludeExactly ==
    enhanced.call # "none" =>
        (enhanced.is_relevant <=>
            \/ node_info.namespace # 0
            \/ Allowed(node_info.browse_name)
            \/ Allowed(node_info.display_name))

\* C29 witness: a node of namespace 0 is kept for its display name BuildInfo,
\* its browse name being SomethingElse.
C29_Witness ==
    /\ enhanced.call = "should_include_node"
    /\ node_info.namespace = 0
    /\ node_info.browse_name = <<"S", "o", "m", "e", "t", "h", "i", "n", "g", "E", "l", "s", "e">>
    /\ node_info.display_name = <<"B", "u", "i", "l", "d", "I", "n", "f", "o">>
    /\ enhanced.is_relevant

\* the categories in the order their terms are tried, and the sets that
\* have a term inside the name, case ignored
CategoryOrder == <<"temperature", "pressure", "speed", "electrical", "counter">>
TermsOf ==
    <<temperature_terms, pressure_terms, speed_terms, electrical_terms,
      counter_terms>>
Matching(name) ==
    {i \in 1..Len(TermsOf) : \E term \in TermsOf[i] : In(term, lower(name))}
FirstMatch(name) ==
    IF Matching(name) = {} THEN "other"
    ELSE CategoryOrder[CHOOSE i \in Matching(name) :
                          \A j \in Matching(name) : i <= j]

\* C30: enhance_node_info gives a node the category of the first set, in the
\* order temperature, pressure, speed, electrical, counter, that has a term
\* inside the browse name, case ignored, and other when no set has:
\* Motor_Speed_RPM is speed, Tank_Pressure_1 pressure, Line_Voltage electrical.
C30_FirstMatchingCategory ==
    enhanced.call = "enhance_node_info" =>
        /\ enhanced.category = FirstMatch(node_info.browse_name)
        /\ node_info.browse_name = <<"M", "o", "t", "o", "r", "_", "S", "p", "e", "e", "d", "_", "R", "P", "M">>
              => enhanced.category = "speed"
        /\ node_info.browse_name = <<"T", "a", "n", "k", "_", "P", "r", "e", "s", "s", "u", "r", "e", "_", "1">>
              => enhanced.category = "pressure"
        /\ node_info.browse_name = <<"L", "i", "n", "e", "_", "V", "o", "l", "t", "a", "g", "e">>
              => enhanced.category = "electrical"

\* C30 witness: Total_Power has a term of electrical and a term of counter
\* and is electrical.
C30_Witness ==
    /\ enhanced.call = "enhance_node_info"
    /\ node_info.browse_name = <<"T", "o", "t", "a", "l", "_", "P", "o", "w", "e", "r">>
    /\ Cardinality(Matching(node_info.browse_name)) = 2
    /\ enhanced.category = "electrical"

\* get_active_connections_count(), lines 203-208, and
\* has_active_connections(), lines 219-221
get_active_connections_count ==
    Cardinality({s \in DOMAIN connection_metrics :
                    connection_metrics[s].status = CONNECTED})
has_active_connections == Len(clients) > 0

\* C33: an endpoint's status is Connected exactly when the registry holds a
\* live handle for it, and get_active_connections_count() > 0 exactly when
\* has_active_connections().
C33_ActiveNotionsAgree ==
    family = "opcua" =>
        /\ \A s \in DOMAIN connection_metrics :
              connection_metrics[s].status = CONNECTED <=> LiveHandle(s)
        /\ get_active_connections_count > 0 <=> has_active_connections

\* the step in which supervisor t's _simple_connect call returns False
SimpleConnectReturnsFalse(t) ==
    simple_connect_fail(t) \/ create_subscription_fail(t)

\* C34: when _simple_connect returns False -- the connect raised or timed
\* out, or the subscription failed after the session opened -- no handle for
\* the endpoint is in the registry and its status is not Connected.
C34_FalseLeavesNothingBehind ==
    [][\A t \in Sups :
          SimpleConnectReturnsFalse(t) =>
              /\ ~ClientsHas(clients', sup[t].name)
              /\ connection_metrics'[sup[t].name].status # CONNECTED]_vars

\* the step in which supervisor t leaves its while loop and runs the code
\* after it, and the value its attempt counter has at that moment
LeavesLoop(t) == Live(t) /\ sup'[t].pc = "returned_false"
FailedAttempts(t) ==
    IF sup[t].pc \in {"connecting", "subscribing"} /\ ~infinite_retry
    THEN sup[t].attempt + 1
    ELSE sup[t].attempt
RecordsExhaustion(t) ==
    /\ LeavesLoop(t)
    /\ connection_metrics'[sup[t].name].status = ERROR
    /\ connection_metrics'[sup[t].name].last_error = "all_attempts_failed"

\* C35: a supervisor with a finite budget of N attempts writes status Error
\* and the "all N attempts failed" message only when N attempts of its own
\* have failed; a loop that ends because shutdown was signalled writes
\* neither.
C35_ErrorOnlyAfterNFailures ==
    [][\A t \in Sups :
          RecordsExhaustion(t) => FailedAttempts(t) = retry_attempts]_vars

\* two OPC UA endpoints with the budget of two attempts
InitRead ==
    /\ family = "opcua"
    /\ servers = <<"s1", "s2">>
    /\ config_retry_delay = 2
    /\ tag_configs = 0
    /\ node_info = NoNodeInfo
    /\ node_id_str = <<>>
    /\ endpoint = Healthy
    /\ Constructed
    /\ retry_attempts = 2

\* the connection of the two endpoints and the read calls of the API
NextRead ==
    \/ initialize
    \/ connect_all_servers_background
    \/ \E t \in 1..Len(sup) : supervisor_start(t)
    \/ \E t \in 1..Len(sup) : supervisor_wake(t)
    \/ \E t \in 1..Len(sup) : simple_connect_ok(t)
    \/ \E t \in 1..Len(sup) : simple_connect_fail(t)
    \/ \E t \in 1..Len(sup) : create_subscription_ok(t)
    \/ \E s \in ServerNames \cup {UnknownName}, ok \in BOOLEAN :
          read_node_value(s, ok)

SpecRead == InitRead /\ [][NextRead]_vars

\* the metrics a call read_node_value(s, node) on a registered endpoint
\* leaves behind, by the outcome ok of the read
AfterRead(s, ok) ==
    [connection_metrics EXCEPT
        ![s] = IF ok
               THEN [connection_metrics[s] EXCEPT
                        !.messages_received = @ + 1]
               ELSE [connection_metrics[s] EXCEPT
                        !.last_error = "read_error"]]

\* C37: read_node_value on an endpoint of the registry adds exactly 1 to
\* that endpoint's messages_received when the read succeeds and changes
\* nothing else; when the read fails the error reaches the caller and only
\* last_error of that endpoint changes: its counter, its status and its
\* handle stay, and so do the metrics of every other endpoint.
C37_ReadFrame ==
    [][\A s \in ServerNames, ok \in BOOLEAN :
          (read_node_value(s, ok) /\ initialized /\ ClientsHas(clients, s))
             => /\ connection_metrics' = AfterRead(s, ok)
                /\ api' = (IF ok THEN "value" ELSE "ReadError")
                /\ UNCHANGED <<clients, handles, closeReq, subscriptions,
                               sup, is_running, initialized>>]_vars

\* C37 witness: s1 was read once with success and once with failure while
\* s2 is connected and was never read.
C37_Witness ==
    /\ api = "ReadError"
    /\ connection_metrics["s1"].status = CONNECTED
    /\ connection_metrics["s1"].messages_received = 1
    /\ connection_metrics["s1"].last_error = "read_error"
    /\ ClientsHas(clients, "s2")
    /\ connection_metrics["s2"].status = CONNECTED
    /\ connection_metrics["s2"].messages_received = 0
    /\ connection_metrics["s2"].last_error = "none"

\* the step that ends a polling cycle of device s: read_multiple_tags has
\* returned its values to _monitor_tags_loop
PollingCycleEnds(s) ==
    /\ s \in DOMAIN read_tasks
    /\ read_tasks[s].pc = "reading"
    /\ read_tasks'[s].pc = "sleeping"

\* C38: a polling cycle of an EtherNet/IP device that returned k tag values
\* adds exactly k to the device's messages_received; a cycle that returned
\* none leaves the counter as it was.
C38_CycleCountsEachValueOnce ==
    [][\A s \in ServerNames :
          PollingCycleEnds(s) =>
              connection_metrics'[s].messages_received =
                 connection_metrics[s].messages_received + read_tasks[s].n]_vars

\* the nodes directly below the start node
ImmediateChildren(paths) == {p \in paths : Len(p) = 1}

\* C39: the depth of a record of recursive_browse is the nesting level of
\* its node below the start node: 0 for the start node's children, d + 1 for
\* a child of a node of depth d.  With max_depth = 0 the call returns exactly
\* the start node's immediate children; with max_depth < 0 it returns the
\* empty list.
C39_DepthIsNestingLevel ==
    Recursive =>
        /\ \A i \in Records :
              all_nodes[i].depth = Len(all_nodes[i].path) - 1
        /\ (Returned /\ ex_call.max_depth = 0) =>
              /\ RecordPaths = ImmediateChildren(ex_io.reported \ ex_io.attr_failed)
              /\ RecordPaths = ex_io.reported \ ex_io.attr_failed
        /\ ex_call.max_depth < 0 =>
              /\ Returned
              /\ all_nodes = <<>>
              /\ ex_io.listed = {}

\* C39 witness: the call returned a child of the start node at depth 0, a
\* child of that child at depth 1 and a child of the latter at depth 2.
C39_Witness ==
    /\ Recursive /\ Returned
    /\ \E i, j, k \in Records :
          /\ all_nodes[i].path = <<1>> /\ all_nodes[i].depth = 0
          /\ all_nodes[j].path = <<1, 1>> /\ all_nodes[j].depth = 1
          /\ all_nodes[k].path = <<1, 1, 1>> /\ all_nodes[k].depth = 2

\* parse_node_id has returned
Parsed == node_id_parsed.call # "none"
\* "ns=k;i=n"
SimpleNumeric(k, n) == NS_PREFIX \o IntStr(k) \o <<";", "i", "=">> \o IntStr(n)

\* C31: for the native representation of Identifier=n, NamespaceIndex=k,
\* NodeIdType=Numeric the result of parse_node_id has identifier n,
\* namespace k and simple "ns=k;i=n".
C31_NumericRoundTrip ==
    \A n \in Identifiers, k \in 0..MaxNs :
        (Parsed /\ node_id_str = NativeRepr(IntStr(n), k, <<NUMERIC_TYPE, 2>>))
           => /\ "error" \notin node_id_parsed.keys
              /\ node_id_parsed.identifier = IntStr(n)
              /\ node_id_parsed.namespace = k
              /\ node_id_parsed.simple = SimpleNumeric(k, n)

\* C31 witness: the repr of the node 84 of namespace 0 was parsed and simple
\* is "ns=0;i=84".
C31_Witness ==
    /\ Parsed
    /\ node_id_str = NativeRepr(<<"8", "4">>, 0, <<NUMERIC_TYPE, 2>>)
    /\ node_id_parsed.simple = <<"n", "s", "=", "0", ";", "i", "=", "8", "4">>

\* no identifier, no namespace index or no type tag can be extracted from str
ParseFailure(str) ==
    \/ ~FieldSearch(IDENTIFIER_KEY, str).matched
    \/ ~FieldSearch(NAMESPACE_KEY, str).matched
    \/ ~int(FieldSearch(NAMESPACE_KEY, str).group).ok
    \/ ~TypeSearch(str).matched

\* C32: parse_node_id always returns, and for an input from which no
\* identifier, namespace index or type tag can be extracted it returns the
\* input itself as formatted and as simple, with an error field.
C32_FailureReturnsRaw ==
    (Parsed /\ ParseFailure(node_id_str)) =>
        /\ "error" \in node_id_parsed.keys
        /\ node_id_parsed.formatted = node_id_str
        /\ node_id_parsed.simple = node_id_str

\* the number of places where term occurs in str
Occurrences(term, str) ==
    Cardinality({i \in 1..Len(str) : StartsAt(term, str, i)})

\* C40: for a node with an integer identifier n in namespace k, whichever of
\* Numeric, TwoByte and FourByte its type tag names, simple and formatted
\* are both "ns=k;i=n", and formatted holds the namespace prefix once.
C40_NumericEncodingsAgree ==
    \A n \in Identifiers, k \in 0..MaxNs,
       type \in NodeIdTypes \ {<<STRING_TYPE, 3>>} :
        (Parsed /\ node_id_str = NativeRepr(IntStr(n), k, type))
           => /\ node_id_parsed.simple = SimpleNumeric(k, n)
              /\ node_id_parsed.formatted = SimpleNumeric(k, n)
              /\ Occurrences(NS_PREFIX, node_id_parsed.formatted) = 1

\* the endpoint was lost and accepts connections again, and no finite budget
\* ran out meanwhile
RecoveredWithBudget(s) ==
    /\ endpoint.phase = "recovered"
    /\ s \notin exhausted
\* the endpoint is Connected and its registered handle is a working session
ConnectedLive(s) ==
    /\ ClientsHas(clients, s)
    /\ connection_metrics[s].status = CONNECTED
    /\ ~Broken(clients[ClientsIndex(clients, s)].h)

\* C36: with no shutdown and the monitor and the supervisors scheduled
\* fairly, a connected endpoint that was lost and accepts connections again
\* -- the budget being infinite, or not used up before the recovery -- is
\* eventually Connected again with a live handle in the registry.
C36_LostEndpointReconnects ==
    RecoveredWithBudget("s1") ~> ConnectedLive("s1")

\* C36 witness: after the outage a supervisor the monitor started has
\* connected the endpoint with a new handle.
C36_Witness ==
    /\ endpoint.phase = "recovered"
    /\ endpoint.broken = 1
    /\ ConnectedLive("s1")
    /\ \E t \in Sups : sup[t].origin = "monitor" /\ sup[t].pc = "returned_true"

=============================================================================
